---- MODULE Spec2Model ----
(***************************************************************************)
(* Model of the tender evaluation pipeline of crw (main.py, scorer.py,     *)
(* file_utils.py, parser.py, downloader.py, uploader.py).                  *)
(*                                                                         *)
(* Modelling level.  The pipeline logic (main(), TenderProcessor,          *)
(* final_score and its helpers, the JSON checkpoint store) is translated   *)
(* statement by statement.  The remote services (the LLM endpoint, the     *)
(* portal, the intake API) are inputs: each call to a thin service wrapper *)
(* (request_to_model's POST, get_summary_from_model,                       *)
(* final_request_to_model, get_translate_of_summary, the acquisition       *)
(* fetches, upload) returns one of the outcomes its request/response       *)
(* contract allows, chosen with \E.  The discovered announcement map is an *)
(* input of every run as well.  The process can be interrupted             *)
(* (KeyboardInterrupt or kill) between any two steps, including between    *)
(* the truncation and the dump of a whole-file JSON rewrite.               *)
(*                                                                         *)
(* Several specifications share the variables.  Spec is main(): runs of    *)
(* the pipeline over the checkpoint store.  SpecScore is one call of       *)
(* final_score with every model call as a step (variable sc).  SpecParse   *)
(* is one call of parse_site, or of get_with_retries, with every           *)
(* session.get as a step (variable ps).  SpecSites is the discovery call   *)
(* of main(), site by site (variable ms).  SpecFiles is download_file      *)
(* called repeatedly on one folder (variable dl).  SpecUpload is one call  *)
(* of executor or of upload (variable up).  SpecInfo is the three calls    *)
(* main() makes for an accepted announcement, with the folders they use    *)
(* (variable ai).  SpecSweep is the data directory under the writes of the *)
(* pipeline and the retention sweep (variable rm).                         *)
(*                                                                         *)
(* Strings are sequences of tokens: an id is <<"7">>, a prefixed key is    *)
(* <<site, "_", "7">>, a model response is a sequence of words.  The       *)
(* Russian words of the source are transliterated: "vozmozhno" (possible), *)
(* "net" (no), "neizvestno" (unknown), "da" (yes).                         *)
(***************************************************************************)
EXTENDS Integers, Sequences, FiniteSets, TLC

(***************************************************************************)
(* Bounds of the model.                                                    *)
(***************************************************************************)
MaxRuns == 2
MaxPages == 3

(***************************************************************************)
(* Program constants.                                                      *)
(***************************************************************************)
chunk_size == 3000
max_chunks == 5
keyword_threshold == 2
max_retry == 3
max_retries == 3
rate_limit_sleep == 60
retry_delay == 5

Ids == {<<"7">>, <<"8">>}
SiteNames == {"goszakup.gov.kz", "site3.example.com"}

\* the ids a site lists in a multi-site run: id 7 is listed by both sites
MultiSiteIds == {<<"7">>}
NoId == <<>>

(***************************************************************************)
(* Keys of the merged discovery map.                                       *)
(***************************************************************************)
prefixed_key(site, key) == <<site, "_">> \o key

HasUnderscore(k) == \E i \in 1..Len(k) : k[i] = "_"

FirstUnderscore(k) == CHOOSE i \in 1..Len(k) : k[i] = "_" /\ \A j \in 1..(i-1) : k[j] # "_"

\* main.py:171-173: original_id = announcement_id.split('_', 1)[1] if '_' in it
original_id(k) == IF HasUnderscore(k) THEN SubSeq(k, FirstUnderscore(k) + 1, Len(k)) ELSE k

\* main.py:149-156: the keys main() can receive from discovery, prefixed by
\* process_multiple_sites (parser.py:207-213) when several sites are enabled
Discoverable(m) ==
    IF m THEN {prefixed_key(s, i) : s \in SiteNames, i \in MultiSiteIds} ELSE Ids

AllKeys == Discoverable(TRUE) \cup Discoverable(FALSE)

(***************************************************************************)
(* The checkpoint store: a JSON file is absent/unparseable (valid = FALSE) *)
(* or holds a map, of which the model keeps the key set.                   *)
(***************************************************************************)
AbsentFile == [valid |-> FALSE, keys |-> {}]
Truncated == [valid |-> FALSE, keys |-> {}]
Dumped(results) == [valid |-> TRUE, keys |-> results]

\* file_utils.py:49-84: {} when the file is missing or is not valid JSON
get_results_from_json(f) == IF f.valid THEN f.keys ELSE {}

(***************************************************************************)
(* Stage 1: request_to_model.                                              *)
(***************************************************************************)
\* what client._make_request gives back: None (ok = FALSE) or the JSON of the
\* answer, of which the model keeps the "response" field
Stage1Responses ==
    { [ok |-> FALSE, text |-> <<>>],
      [ok |-> TRUE, text |-> <<"vozmozhno">>],
      [ok |-> TRUE, text |-> <<" ", "Vozmozhno">>],
      [ok |-> TRUE, text |-> <<"net">>],
      [ok |-> TRUE, text |-> <<"net", "vozmozhno">>],
      [ok |-> TRUE, text |-> <<"nevozmozhno">>],
      [ok |-> TRUE, text |-> <<"internet">>],
      [ok |-> TRUE, text |-> <<"da">>],
      [ok |-> TRUE, text |-> <<>>] }

Contains(text, w) == \E i \in 1..Len(text) : text[i] = w

\* the words of interest a word contains as a substring
Within(w) ==
    CASE w = "nevozmozhno" -> {"nevozmozhno", "vozmozhno"}
      [] w = "internet" -> {"internet", "net"}
      [] w = "dalee" -> {"dalee", "da"}
      [] OTHER -> {w}

\* Python's  w in text  on strings
In(w, text) == \E i \in 1..Len(text) : w \in Within(text[i])

Lower(w) ==
    CASE w = "Da" -> "da"
      [] w = "Net" -> "net"
      [] w = "Vozmozhno" -> "vozmozhno"
      [] w = "Dalee" -> "dalee"
      [] w = "SED" -> "sed"
      [] w = "ECP" -> "ecp"
      [] OTHER -> w
LowerText(t) == [i \in 1..Len(t) |-> Lower(t[i])]

\* str.strip: the white space at both ends is removed
RECURSIVE Strip(_)
Strip(t) ==
    IF t = <<>> THEN t
    ELSE IF t[1] = " " THEN Strip(Tail(t))
    ELSE IF t[Len(t)] = " " THEN Strip(SubSeq(t, 1, Len(t) - 1))
    ELSE t

\* a mapping that looks for "net" first
request_to_model_NetFirst(resp) ==
    IF ~resp.ok THEN "neizvestno"
    ELSE LET raw_output == LowerText(Strip(resp.text)) IN
         IF In("net", raw_output) THEN "net"
         ELSE IF In("vozmozhno", raw_output) THEN "vozmozhno"
         ELSE "neizvestno"

\* scorer.py:117-133
request_to_model(resp) ==
    IF ~resp.ok THEN "neizvestno"
    ELSE LET raw_output == LowerText(Strip(resp.text)) IN
         IF In("vozmozhno", raw_output) THEN "vozmozhno"
         ELSE IF In("net", raw_output) THEN "net"
         ELSE "neizvestno"

\* a stage-1 gate that only stops an explicit "net"
PassesStage1_NotNo(r1) == r1 # "net"

\* main.py:61
PassesStage1(r1) == r1 = "vozmozhno"

(***************************************************************************)
(* Stage 2: final_score and its helpers.                                   *)
(***************************************************************************)
NoText == [kw |-> 0, len |-> 0]
DocTexts == {[kw |-> k, len |-> l] : k \in {1, 3}, l \in {500, 3500}} \cup {NoText}

\* outcome of one call of a model-service wrapper: an exception or a text
Raised == [exc |-> TRUE, text |-> <<>>]
Answer(t) == [exc |-> FALSE, text |-> t]
ClsOutcomes ==
    {Raised, Answer(<<>>), Answer(<<" ", "Da", "vozmozhno">>), Answer(<<"ne", "da">>)}

\* the outcomes of a classification call in SpecScore
ScoreClsOutcomes == ClsOutcomes \cup {Answer(<<"Dalee">>)}

\* scorer.py:238: the wrapper strips and lower-cases the answer it returns
final_request_to_model(out) == IF out.exc THEN out ELSE Answer(LowerText(Strip(out.text)))

\* a gate that lets a text with a single keyword through
has_enough_keywords_One(text) == text.kw >= 1

\* scorer.py:296-310
has_enough_keywords(text) == text.kw >= keyword_threshold

\* scorer.py:360-380: outs[i] is the outcome of the i-th call of func
Truthy(out) == ~out.exc /\ out.text # <<>>

retry_model_request(outs) ==
    IF \E i \in 1..max_retry : Truthy(outs[i])
    THEN outs[CHOOSE i \in 1..max_retry : Truthy(outs[i]) /\ \A j \in 1..(i-1) : ~Truthy(outs[j])].text
    ELSE <<"net">>

\* the words of interest a word begins with
Prefixes(w) ==
    CASE w = "dalee" -> {"dalee", "da"}
      [] OTHER -> {w}

\* str.startswith
StartsWith(text, w) == Len(text) > 0 /\ w \in Prefixes(text[1])

\* a normalisation that looks for "da" anywhere in the answer
normalize_decision_Anywhere(response) ==
    IF In("da", LowerText(Strip(response))) THEN "da" ELSE "net"

\* scorer.py:383-394
normalize_decision(response) ==
    IF StartsWith(LowerText(Strip(response)), "da") THEN "da" ELSE "net"

ModelResponse(decision, summary) ==
    [type |-> "ModelResponse", decision |-> decision, summary |-> summary]

\* scorer.py:313-326 and 329-357: the decision is the normalised answer of the
\* retried classification call on both paths
process_short_text(cls) ==
    normalize_decision(retry_model_request([i \in 1..max_retry |-> final_request_to_model(cls[i])]))

process_long_text(cls) ==
    normalize_decision(retry_model_request([i \in 1..max_retry |-> final_request_to_model(cls[i])]))

\* scorer.py:246-294: text is the extracted document text, cls the outcomes of
\* the successive classification calls, trOk whether the translation call
\* succeeds
final_score(text, cls, trOk) ==
    IF text.len = 0 THEN ModelResponse("net", "")
    ELSE IF ~has_enough_keywords(text) THEN ModelResponse("net", "")
    ELSE LET decision == IF text.len <= chunk_size THEN process_short_text(cls)
                         ELSE process_long_text(cls)
         IN IF trOk THEN ModelResponse(decision, "translated")
            ELSE ModelResponse("net", "")

\* main.py:75-78: result2['decision'] on the value final_score returns.
\* ModelResponse is a dataclass (scorer.py:17-22), not a mapping, so the
\* subscript raises TypeError.
Subscriptable(obj) == obj.type = "dict"

(***************************************************************************)
(* State.                                                                  *)
(***************************************************************************)
VARIABLES
    multi,              \* more than one site enabled (config.sites)
    f_filtered,         \* filtered.json
    f_stage1s,          \* stage1_success.json
    f_stage2s,          \* stage2_success.json
    folder,             \* ids whose document folder holds a file
    pc,                 \* position of the process in main()
    run,                \* number of runs started
    todo,               \* keys the loop of main() has not reached yet
    cur,                \* announcement_id inside process_announcement
    already_processed,  \* TenderProcessor.already_processed (keys)
    stage1_success,     \* TenderProcessor.stage1_success (keys)
    stage2_success,     \* TenderProcessor.stage2_success (keys)
    stats,              \* TenderProcessor.stats
    result1,            \* local of process_announcement
    info,               \* local of process_announcement
    result2,            \* local of process_announcement
    given,              \* what the services answered for the current announcement
    trace,              \* calls made for the current announcement
    obs,                \* observations of this run and of the previous one
    sc,                 \* one call of final_score, statement by statement
    ps,                 \* one call of parse_site or of get_with_retries
    ms,                 \* one discovery call of main(), site by site
    dl,                 \* calls of download_file on one folder
    up,                 \* one call of executor
    ai,                 \* one announcement from acquisition to upload
    rm                  \* the data directory under the retention sweep

vars == <<multi, f_filtered, f_stage1s, f_stage2s, folder, pc, run, todo, cur,
          already_processed, stage1_success, stage2_success, stats,
          result1, info, result2, given, trace, obs, sc, ps, ms, dl, up, ai, rm>>

\* an exception counted twice
count_error_Twice(s) == [s EXCEPT !.errors = @ + 2]

\* main.py:96-98: except Exception: self.stats.errors += 1
count_error(s) == [s EXCEPT !.errors = @ + 1]

ProcessingStats ==
    [total_processed |-> 0, stage1_success |-> 0, stage2_success |-> 0,
     uploads_successful |-> 0, errors |-> 0]

NoResult2 == ModelResponse("none", "none")
\* resp is kept until the next step of process_announcement
NoResp == [ok |-> FALSE, text |-> <<>>]
NoGiven ==
    [text |-> NoText, answer |-> "none", trOk |-> FALSE, resp |-> NoResp,
     downloaded |-> FALSE]

\* what the properties need to know of the run in progress (this) and of
\* the run before it (prev); ever: the ids filtered.json has ever held
RunObs ==
    [exit |-> "none", data |-> {}, same |-> FALSE, st1 |-> {}, calls |-> {},
     unknown |-> {}, failed |-> {}, inflight |-> NoId, passed1 |-> {},
     startStage1 |-> {}]
PrevObs == [exit |-> "none", unknown |-> {}, failed |-> {}]
Summary(o) == [exit |-> o.exit, unknown |-> o.unknown, failed |-> o.failed]

\* the component machines are at rest while main() runs
NoScore == [pc |-> "off"]
NoParse == [pc |-> "off"]
NoSites == [pc |-> "off"]
NoFiles == [pc |-> "off"]
NoUpload == [pc |-> "off"]
NoInfo == [pc |-> "off"]
NoSweep == [pc |-> "off"]

InProcess == pc \in {"pa_dump", "pa_stage1", "pa_acquire", "pa_score"}
InSave == pc \in {"save1_open", "save1_dump", "save2_open", "save2_dump",
                  "save3_open", "save3_dump"}

Init ==
    /\ multi \in BOOLEAN
    /\ f_filtered = AbsentFile
    /\ f_stage1s = AbsentFile
    /\ f_stage2s = AbsentFile
    /\ folder = {}
    /\ pc = "idle"
    /\ run = 0
    /\ todo = {}
    /\ cur = NoId
    /\ already_processed = {}
    /\ stage1_success = {}
    /\ stage2_success = {}
    /\ stats = ProcessingStats
    /\ result1 = "none"
    /\ info = "none"
    /\ result2 = NoResult2
    /\ given = NoGiven
    /\ trace = <<>>
    /\ obs = [this |-> RunObs, prev |-> PrevObs, ever |-> {}]
    /\ sc = NoScore
    /\ ps = NoParse
    /\ ms = NoSites
    /\ dl = NoFiles
    /\ up = NoUpload
    /\ ai = NoInfo
    /\ rm = NoSweep

(***************************************************************************)
(* main(), lines 138-162: a new TenderProcessor, load_processed_data and   *)
(* discovery.  An empty discovery result ends the run without saving.      *)
(***************************************************************************)
StartRun ==
    /\ pc = "idle"
    /\ run < MaxRuns
    /\ run' = run + 1
    /\ stats' = ProcessingStats
    /\ stage1_success' = {}
    /\ stage2_success' = {}
    /\ already_processed' = get_results_from_json(f_filtered)
    /\ \E data \in SUBSET Discoverable(multi) :
         /\ todo' = data
         /\ pc' = IF data = {} THEN "idle" ELSE "loop"
         /\ obs' = [this |-> [RunObs EXCEPT
                                !.exit = IF data = {} THEN "nodata" ELSE "running",
                                !.data = data,
                                !.same = (data = obs.this.data),
                                !.startStage1 = get_results_from_json(f_stage1s)],
                    prev |-> Summary(obs.this),
                    ever |-> obs.ever]
    /\ cur' = NoId
    /\ result1' = "none"
    /\ info' = "none"
    /\ result2' = NoResult2
    /\ given' = NoGiven
    /\ trace' = <<>>
    /\ UNCHANGED <<sc, ps, ms, dl, up, ai, rm, multi, f_filtered, f_stage1s, f_stage2s, folder>>

(***************************************************************************)
(* main(), lines 165-175, and process_announcement, lines 49-53 up to the  *)
(* open(file, "w") of save_results_to_json, which truncates filtered.json. *)
(***************************************************************************)
LoopNext ==
    /\ pc = "loop"
    /\ \E k \in todo :
         /\ todo' = todo \ {k}
         /\ IF k \in already_processed
            THEN /\ pc' = "loop"
                 /\ cur' = NoId
                 /\ UNCHANGED <<already_processed, stats, f_filtered>>
            ELSE /\ cur' = original_id(k)
                 /\ stats' = [stats EXCEPT !.total_processed = @ + 1]
                 /\ already_processed' = already_processed \cup {original_id(k)}
                 /\ f_filtered' = Truncated
                 /\ pc' = "pa_dump"
    /\ result1' = "none"
    /\ info' = "none"
    /\ result2' = NoResult2
    /\ given' = NoGiven
    /\ trace' = <<>>
    /\ UNCHANGED <<sc, ps, ms, dl, up, ai, rm, multi, f_stage1s, f_stage2s, folder, run, stage1_success,
                   stage2_success, obs>>

\* file_utils.py:37-38: json.dump of the whole map into filtered.json
PaDump ==
    /\ pc = "pa_dump"
    /\ f_filtered' = Dumped(already_processed)
    /\ obs' = [obs EXCEPT !.ever = @ \cup already_processed]
    /\ pc' = "pa_stage1"
    /\ UNCHANGED <<sc, ps, ms, dl, up, ai, rm, multi, f_stage1s, f_stage2s, folder, run, todo, cur,
                   already_processed, stage1_success, stage2_success, stats,
                   result1, info, result2, given, trace>>

\* main.py:57-63 and 93-94
PaStage1 ==
    /\ pc = "pa_stage1"
    /\ \E resp \in Stage1Responses :
         LET r1 == request_to_model(resp) IN
         /\ result1' = r1
         /\ given' = [given EXCEPT !.resp = resp]
         /\ trace' = Append(trace, "request_to_model")
         /\ obs' = [obs EXCEPT !.this.st1 = @ \cup {cur},
                               !.this.calls = @ \cup {"request_to_model"},
                               !.this.unknown = IF r1 = "neizvestno" THEN @ \cup {cur} ELSE @]
         /\ IF PassesStage1(r1)
            THEN /\ stats' = [stats EXCEPT !.stage1_success = @ + 1]
                 /\ stage1_success' = stage1_success \cup {cur}
                 /\ pc' = "pa_acquire"
            ELSE /\ UNCHANGED <<stats, stage1_success>>
                 /\ pc' = "loop"
    /\ UNCHANGED <<sc, ps, ms, dl, up, ai, rm, multi, f_filtered, f_stage1s, f_stage2s, folder, run, todo,
                   cur, already_processed, stage2_success, info, result2>>

\* main.py:67-72 with downloader.py:292-355: the documents page, the download
\* into the folder of raw_id and get_announcement_info
PaAcquire ==
    /\ pc = "pa_acquire"
    /\ \E pageOk \in BOOLEAN, downloaded \in BOOLEAN, infoOk \in BOOLEAN :
         /\ folder' = IF pageOk /\ downloaded THEN folder \cup {cur} ELSE folder
         /\ given' = [given EXCEPT !.downloaded = pageOk /\ downloaded, !.resp = NoResp]
         /\ info' = IF pageOk /\ infoOk THEN "info" ELSE "None"
    /\ trace' = Append(trace, "process_by_announcement_id")
    /\ obs' = [obs EXCEPT !.this.calls = @ \cup {"process_by_announcement_id"},
                          !.this.failed = IF info' = "None" THEN @ \cup {cur} ELSE @]
    /\ IF info' = "None"
       THEN /\ stats' = [stats EXCEPT !.errors = @ + 1]
            /\ pc' = "loop"
       ELSE /\ UNCHANGED stats
            /\ pc' = "pa_score"
    /\ UNCHANGED <<sc, ps, ms, dl, up, ai, rm, multi, f_filtered, f_stage1s, f_stage2s, run, todo, cur,
                   already_processed, stage1_success, stage2_success,
                   result1, result2>>

\* main.py:74-98: final_score, the reads of result2['decision'], and, on "da",
\* the stage-2 checkpoint and executor
PaScore ==
    /\ pc = "pa_score"
    /\ \E text \in (IF cur \in folder THEN DocTexts ELSE {NoText}),
          cls \in [1..max_retry -> ClsOutcomes], trOk \in BOOLEAN :
         LET r2 == final_score(text, cls, trOk) IN
         /\ result2' = r2
         /\ given' = [given EXCEPT
                         !.text = text,
                         !.answer = IF text.len <= chunk_size THEN process_short_text(cls)
                                    ELSE process_long_text(cls),
                         !.trOk = trOk]
         /\ IF ~Subscriptable(r2)
            THEN /\ trace' = Append(trace, "final_score")
                 /\ stats' = count_error(stats)
                 /\ obs' = [obs EXCEPT !.this.calls = @ \cup {"final_score"},
                                       !.this.failed = @ \cup {cur}]
                 /\ UNCHANGED stage2_success
            ELSE IF r2.decision = "da"
            THEN \E document_id \in {"None", "doc"} :
                 /\ trace' = trace \o <<"final_score", "executor">>
                 /\ stage2_success' = stage2_success \cup {cur}
                 /\ stats' = [stats EXCEPT
                                !.stage2_success = @ + 1,
                                !.uploads_successful = IF document_id # "None" THEN @ + 1 ELSE @,
                                !.errors = IF document_id = "None" THEN @ + 1 ELSE @]
                 /\ obs' = [obs EXCEPT !.this.calls = @ \cup {"final_score", "executor"},
                                       !.this.failed = IF document_id = "None" THEN @ \cup {cur} ELSE @]
            ELSE /\ trace' = Append(trace, "final_score")
                 /\ obs' = [obs EXCEPT !.this.calls = @ \cup {"final_score"}]
                 /\ UNCHANGED <<stats, stage2_success>>
    /\ pc' = "loop"
    /\ UNCHANGED <<sc, ps, ms, dl, up, ai, rm, multi, f_filtered, f_stage1s, f_stage2s, folder, run, todo,
                   cur, already_processed, stage1_success, result1, info>>

\* main.py:177-178: the loop is over, save_results begins
LoopEnd ==
    /\ pc = "loop"
    /\ todo = {}
    /\ pc' = "save1_open"
    /\ cur' = NoId
    /\ result1' = "none"
    /\ info' = "none"
    /\ result2' = NoResult2
    /\ given' = NoGiven
    /\ trace' = <<>>
    /\ UNCHANGED <<sc, ps, ms, dl, up, ai, rm, multi, f_filtered, f_stage1s, f_stage2s, folder, run, todo,
                   already_processed, stage1_success, stage2_success, stats, obs>>

\* main.py:103-105 with file_utils.py:37: open(file, "w") truncates the file
SaveOpen ==
    /\ pc \in {"save1_open", "save2_open", "save3_open"}
    /\ f_stage1s' = IF pc = "save1_open" THEN Truncated ELSE f_stage1s
    /\ f_stage2s' = IF pc = "save2_open" THEN Truncated ELSE f_stage2s
    /\ f_filtered' = IF pc = "save3_open" THEN Truncated ELSE f_filtered
    /\ pc' = CASE pc = "save1_open" -> "save1_dump"
               [] pc = "save2_open" -> "save2_dump"
               [] pc = "save3_open" -> "save3_dump"
    /\ UNCHANGED <<sc, ps, ms, dl, up, ai, rm, multi, folder, run, todo, cur, already_processed,
                   stage1_success, stage2_success, stats, result1, info,
                   result2, given, trace, obs>>

\* main.py:103-105 with file_utils.py:38: json.dump of the whole map; after the
\* third file main() prints the statistics and returns
SaveDump ==
    /\ pc \in {"save1_dump", "save2_dump", "save3_dump"}
    /\ f_stage1s' = IF pc = "save1_dump" THEN Dumped(stage1_success) ELSE f_stage1s
    /\ f_stage2s' = IF pc = "save2_dump" THEN Dumped(stage2_success) ELSE f_stage2s
    /\ f_filtered' = IF pc = "save3_dump" THEN Dumped(already_processed) ELSE f_filtered
    /\ pc' = CASE pc = "save1_dump" -> "save2_open"
               [] pc = "save2_dump" -> "save3_open"
               [] pc = "save3_dump" -> "idle"
    /\ obs' = IF pc = "save3_dump"
              THEN [obs EXCEPT !.this.exit = "done", !.ever = @ \cup already_processed]
              ELSE obs
    /\ UNCHANGED <<sc, ps, ms, dl, up, ai, rm, multi, folder, run, todo, cur, already_processed,
                   stage1_success, stage2_success, stats, result1, info,
                   result2, given, trace>>

\* main.py:185-186: KeyboardInterrupt (or a kill) ends the run where it is;
\* nothing is saved on the way out
Interrupt ==
    /\ pc # "idle"
    /\ pc' = "idle"
    /\ obs' = [obs EXCEPT !.this.exit = IF InSave THEN "interrupted_save" ELSE "interrupted",
                          !.this.inflight = IF InProcess THEN cur ELSE NoId,
                          !.this.failed = IF InProcess /\ pc # "pa_dump" THEN @ \cup {cur} ELSE @,
                          !.this.passed1 = stage1_success]
    /\ todo' = {}
    /\ cur' = NoId
    /\ result1' = "none"
    /\ info' = "none"
    /\ result2' = NoResult2
    /\ given' = NoGiven
    /\ trace' = <<>>
    /\ UNCHANGED <<sc, ps, ms, dl, up, ai, rm, multi, f_filtered, f_stage1s, f_stage2s, folder, run,
                   already_processed, stage1_success, stage2_success, stats>>

Next ==
    \/ StartRun
    \/ LoopNext
    \/ PaDump
    \/ PaStage1
    \/ PaAcquire
    \/ PaScore
    \/ LoopEnd
    \/ SaveOpen
    \/ SaveDump
    \/ Interrupt

Spec == Init /\ [][Next]_vars

TypeOK ==
    /\ pc \in {"idle", "loop", "pa_dump", "pa_stage1", "pa_acquire", "pa_score",
               "save1_open", "save1_dump", "save2_open", "save2_dump",
               "save3_open", "save3_dump"}
    /\ run \in 0..MaxRuns
    /\ todo \subseteq AllKeys
    /\ already_processed \subseteq AllKeys
    /\ stage1_success \subseteq Ids
    /\ stage2_success \subseteq Ids

(***************************************************************************)
(* final_score, statement by statement (scorer.py:246-294 with 296-394).   *)
(* sc.calls is the list of the model calls issued so far; every call of a  *)
(* model-service wrapper takes one step and gets one outcome.              *)
(***************************************************************************)
\* scorer.py:240-244, transliterated
KEYWORDS ==
    {"elektronnyj dokumentooborot", "sistema elektronnogo dokumentooborota",
     "elektronnaya cifrovaya podpis", "celostnost dokumenta",
     "podlinnost dokumenta", "udostoveryayushchij centr",
     "registracionno-kontrolnaya kartochka", "soglasovanie dokumenta",
     "registraciya dokumentov", "vnutrennie dokumenty", "ecp", "sed"}

\* scorer.py:308: the number of entries of KEYWORDS that occur in the
\* lower-cased text; words is the set of phrases that occur in the text
keyword_count(words) ==
    Cardinality({k \in KEYWORDS : \E w \in words : Lower(w) = Lower(k)})

\* the document texts final_score is run on: phrases occurring and length
WordSets ==
    {{}, {"remont"}, {"SED"}, {"sed", "SED"}, {"SED", "ecp"},
     {"sed", "ECP", "registraciya dokumentov"}}
TextLengths == {0, 500, 3000, 3001, 6000, 15001}
ScoreTexts ==
    {[kw |-> keyword_count(ws), len |-> l] :
        ws \in WordSets, l \in TextLengths \ {0}} \cup {NoText}

\* get_summary_from_model (scorer.py:142-187) catches every exception: it
\* returns "" or the stripped summary
SumOutcomes == {Answer(<<>>), Answer(<<"summary">>)}

\* the argument of a model call: a slice [from, to) of the document text, or
\* a text derived from earlier answers
Slice(from, to) == [kind |-> "doc", from |-> from, to |-> to]
Derived(name) == [kind |-> name, from |-> 0, to |-> 0]
Call(fn, arg, wrapped) == [fn |-> fn, arg |-> arg, wrapped |-> wrapped]

Min(a, b) == IF a <= b THEN a ELSE b

\* scorer.py:345-348: chunk i is text[i*chunk_size : (i+1)*chunk_size]
Chunk(i, len) == Slice(i * chunk_size, Min((i + 1) * chunk_size, len))

\* a loop without the max_chunks cap
MoreChunks_NoCap(i, len) == i * chunk_size < len

\* scorer.py:345-347: the loop over range(0, len(text), chunk_size) goes on
MoreChunks(i, len) == i * chunk_size < len /\ i < max_chunks

\* scorer.py:353: "\n".join(summaries)
RECURSIVE join(_)
join(summaries) ==
    IF Len(summaries) = 0 THEN <<>>
    ELSE IF Len(summaries) = 1 THEN summaries[1]
    ELSE summaries[1] \o <<"\n">> \o join(Tail(summaries))

\* a wrapper whose default after the last attempt is the empty string
retry_attempt_EmptyDefault(attempt, out) ==
    IF Truthy(out) THEN [returned |-> TRUE, value |-> out.text]
    ELSE IF attempt + 1 < max_retry THEN [returned |-> FALSE, value |-> <<>>]
    ELSE [returned |-> TRUE, value |-> <<>>]

\* scorer.py:372-380: the attempt-th pass (from 0) of the loop of
\* _retry_model_request, func having answered out
retry_attempt(attempt, out) ==
    IF Truthy(out) THEN [returned |-> TRUE, value |-> out.text]
    ELSE IF attempt + 1 < max_retry THEN [returned |-> FALSE, value |-> <<>>]
    ELSE [returned |-> TRUE, value |-> <<"net">>]

\* scorer.py:292-294: what final_score makes of an exception raised inside it
Propagated == [type |-> "exception", decision |-> "none", summary |-> ""]
\* an except clause that accepts
final_score_except_Accept == ModelResponse("da", "")

final_score_except == ModelResponse("net", "")

NoRetry == [fn |-> "none", outs |-> <<>>, value |-> <<>>]

ScoreStart(text) ==
    [pc |-> "start", text |-> text, calls |-> <<>>, attempt |-> 0, outs |-> <<>>,
     i |-> 0, summaries |-> <<>>, summary |-> <<>>, decision_summary |-> <<>>,
     decision |-> "none", trFailed |-> FALSE, last |-> NoRetry,
     result |-> NoResult2]

InitScore ==
    /\ sc \in {ScoreStart(t) : t \in ScoreTexts}
    /\ ps = NoParse
    /\ ms = NoSites
    /\ dl = NoFiles
    /\ up = NoUpload
    /\ ai = NoInfo
    /\ rm = NoSweep
    /\ multi = FALSE
    /\ f_filtered = AbsentFile
    /\ f_stage1s = AbsentFile
    /\ f_stage2s = AbsentFile
    /\ folder = {}
    /\ pc = "idle"
    /\ run = 0
    /\ todo = {}
    /\ cur = NoId
    /\ already_processed = {}
    /\ stage1_success = {}
    /\ stage2_success = {}
    /\ stats = ProcessingStats
    /\ result1 = "none"
    /\ info = "none"
    /\ result2 = NoResult2
    /\ given = NoGiven
    /\ trace = <<>>
    /\ obs = [this |-> RunObs, prev |-> PrevObs, ever |-> {}]

mainvars == <<multi, f_filtered, f_stage1s, f_stage2s, folder, pc, run, todo,
              cur, already_processed, stage1_success, stage2_success, stats,
              result1, info, result2, given, trace, obs>>

\* scorer.py:260-278: the text, the keyword gate and the choice of the path
ScGate ==
    /\ sc.pc = "start"
    /\ sc' = IF sc.text.len = 0 \/ ~has_enough_keywords(sc.text)
             THEN [sc EXCEPT !.pc = "done", !.result = ModelResponse("net", "")]
             ELSE IF sc.text.len <= chunk_size
             THEN [sc EXCEPT !.pc = "short_summary"]
             ELSE [sc EXCEPT !.pc = "long_chunks"]
    /\ UNCHANGED <<ps, ms, dl, up, ai, rm, mainvars>>

\* scorer.py:323: summary = get_summary_from_model(text)
ScShortSummary ==
    /\ sc.pc = "short_summary"
    /\ \E out \in SumOutcomes :
         sc' = [sc EXCEPT !.pc = "classify",
                          !.calls = Append(@, Call("summary", Slice(0, sc.text.len), FALSE)),
                          !.summary = out.text]
    /\ UNCHANGED <<ps, ms, dl, up, ai, rm, mainvars>>

\* scorer.py:345-351: one call of get_summary_from_model(chunk) inside
\* _retry_model_request
ScChunk ==
    /\ sc.pc = "long_chunks"
    /\ MoreChunks(sc.i, sc.text.len)
    /\ \E out \in SumOutcomes :
         LET r == retry_attempt(sc.attempt, out)
             outs == Append(sc.outs, out) IN
         sc' = IF r.returned
               THEN [sc EXCEPT !.calls = Append(@, Call("summary", Chunk(sc.i, sc.text.len), TRUE)),
                               !.summaries = Append(@, r.value),
                               !.i = @ + 1, !.attempt = 0, !.outs = <<>>,
                               !.last = [fn |-> "summary", outs |-> outs, value |-> r.value]]
               ELSE [sc EXCEPT !.calls = Append(@, Call("summary", Chunk(sc.i, sc.text.len), TRUE)),
                               !.attempt = @ + 1, !.outs = outs]
    /\ UNCHANGED <<ps, ms, dl, up, ai, rm, mainvars>>

\* scorer.py:346-347 and 353: the loop ends, full_summary is joined
ScJoin ==
    /\ sc.pc = "long_chunks"
    /\ ~MoreChunks(sc.i, sc.text.len)
    /\ sc' = [sc EXCEPT !.pc = "long_full", !.summary = join(sc.summaries)]
    /\ UNCHANGED <<ps, ms, dl, up, ai, rm, mainvars>>

\* scorer.py:354: one call of get_summary_from_model(full_summary) inside
\* _retry_model_request
ScFullSummary ==
    /\ sc.pc = "long_full"
    /\ \E out \in SumOutcomes :
         LET r == retry_attempt(sc.attempt, out)
             outs == Append(sc.outs, out) IN
         sc' = IF r.returned
               THEN [sc EXCEPT !.pc = "classify",
                               !.calls = Append(@, Call("summary", Derived("full_summary"), TRUE)),
                               !.decision_summary = r.value,
                               !.attempt = 0, !.outs = <<>>,
                               !.last = [fn |-> "summary", outs |-> outs, value |-> r.value]]
               ELSE [sc EXCEPT !.calls = Append(@, Call("summary", Derived("full_summary"), TRUE)),
                               !.attempt = @ + 1, !.outs = outs]
    /\ UNCHANGED <<ps, ms, dl, up, ai, rm, mainvars>>

\* a classification of the raw text on both paths
classify_arg_Raw(text) == Slice(0, text.len)

\* scorer.py:324 and 355: what final_request_to_model is called with, the
\* text on the short path and decision_summary on the long one
classify_arg(text) ==
    IF text.len <= chunk_size THEN Slice(0, text.len) ELSE Derived("decision_summary")

\* scorer.py:324-326 and 355-357: one call of final_request_to_model inside
\* _retry_model_request; the answer returned is normalised
ScClassify ==
    /\ sc.pc = "classify"
    /\ \E o \in ScoreClsOutcomes :
         LET out == final_request_to_model(o)
             r == retry_attempt(sc.attempt, out)
             outs == Append(sc.outs, out)
             arg == classify_arg(sc.text) IN
         sc' = IF r.returned
               THEN [sc EXCEPT !.pc = "translate",
                               !.calls = Append(@, Call("classify", arg, TRUE)),
                               !.decision = normalize_decision(r.value),
                               !.attempt = 0, !.outs = <<>>,
                               !.last = [fn |-> "classify", outs |-> outs, value |-> r.value]]
               ELSE [sc EXCEPT !.calls = Append(@, Call("classify", arg, TRUE)),
                               !.attempt = @ + 1, !.outs = outs]
    /\ UNCHANGED <<ps, ms, dl, up, ai, rm, mainvars>>

\* scorer.py:281-294: get_translate_of_summary(summary), whatever the
\* decision; an exception of the call is caught by the except clause
ScTranslate ==
    /\ sc.pc = "translate"
    /\ \E trOk \in BOOLEAN :
         sc' = [sc EXCEPT !.pc = "done",
                          !.calls = Append(@, Call("translate", Derived("summary"), FALSE)),
                          !.trFailed = ~trOk,
                          !.result = IF trOk THEN ModelResponse(sc.decision, "translated")
                                     ELSE final_score_except]
    /\ UNCHANGED <<ps, ms, dl, up, ai, rm, mainvars>>

NextScore ==
    \/ ScGate
    \/ ScShortSummary
    \/ ScChunk
    \/ ScJoin
    \/ ScFullSummary
    \/ ScClassify
    \/ ScTranslate

SpecScore == InitScore /\ [][NextScore]_vars

ScoreTypeOK ==
    /\ sc.pc \in {"start", "short_summary", "long_chunks", "long_full",
                  "classify", "translate", "done"}
    /\ sc.attempt \in 0..(max_retry - 1)
    /\ sc.i \in 0..max_chunks
    /\ sc.decision \in {"none", "da", "net"}

(***************************************************************************)
(* Discovery of one site: BaseParser.parse_site with request_with_retry    *)
(* (parsers/base_parser.py:60-94, 137-207; WebScraper.request_with_retry,  *)
(* parser.py:91-127, is the same loop), and one call of                    *)
(* FileDownloader.get_with_retries (downloader.py:54-84).  Every           *)
(* session.get takes one step and gets one status; ps.fetches is the list  *)
(* of the URLs requested.                                                  *)
(***************************************************************************)
ParserTypes == {"goszakup", "site3"}

\* outcome of one session.get: a status code, or RequestException when the
\* request raised one
RequestException == 0
Statuses == {200, 429, 500, RequestException}

search_url == <<"search_url">>

\* goszakup_parser.py:121-132 and site3_parser.py:45-58
build_page_url(parser, base_url, page_number) ==
    IF parser = "goszakup" THEN base_url \o <<"&page=", page_number>> ELSE base_url

\* the first page as the strategy sees it: whether it has a pagination list,
\* and the page numbers of its matching links in document order
Soups ==
    {[pagination |-> FALSE, pages |-> <<>>], [pagination |-> TRUE, pages |-> <<>>],
     [pagination |-> TRUE, pages |-> <<MaxPages, 2>>]}
    \cup {[pagination |-> TRUE, pages |-> <<n>>] : n \in 1..MaxPages}

\* goszakup_parser.py:17-53 (the last matching link wins) and
\* site3_parser.py:16-28
get_last_page_number(parser, soup) ==
    IF parser = "goszakup" /\ soup.pagination /\ Len(soup.pages) > 0
    THEN soup.pages[Len(soup.pages)]
    ELSE 1

\* a Python dict of announcements: a function from ids to entries, of which
\* the model keeps the name
EmptyDict == [k \in {} |-> "none"]

\* what extract_announcements_from_page returns for a page
\* (goszakup_parser.py:66 and 106-108; site3_parser.py:30-43 returns {}):
\* id 7 can be listed on several pages, under the name the page gives it
PageItems(parser) ==
    IF parser = "goszakup"
    THEN {[k \in {<<"7">>} |-> "name_a"],
          [k \in {<<"7">>, <<"8">>} |-> "name_b"],
          [k \in {<<"8">>} |-> "name_c"]}
    ELSE {EmptyDict}

\* a loop that makes one pass more
request_attempt_OneMore(attempt, status) ==
    IF status = 200 THEN [returned |-> TRUE, value |-> "response", sleep |-> 0]
    ELSE IF attempt < max_retries + 1
    THEN [returned |-> FALSE, value |-> "None", sleep |-> retry_delay]
    ELSE [returned |-> TRUE, value |-> "None", sleep |-> retry_delay]

\* base_parser.py:70-94: the attempt-th pass (from 1) of the loop of
\* request_with_retry, session.get having answered status
request_attempt(attempt, status) ==
    IF status = 200 THEN [returned |-> TRUE, value |-> "response", sleep |-> 0]
    ELSE IF attempt < max_retries
    THEN [returned |-> FALSE, value |-> "None",
          sleep |-> IF status = 429 THEN rate_limit_sleep ELSE retry_delay]
    ELSE [returned |-> TRUE, value |-> "None",
          sleep |-> IF status = 429 THEN rate_limit_sleep
                    ELSE IF status = RequestException THEN 0 ELSE retry_delay]

\* a loop that counts the error on every failed attempt
download_attempt_CountEach(attempt, status) ==
    IF status = 200 THEN [returned |-> TRUE, value |-> "response", errors |-> 0]
    ELSE IF attempt < max_retries - 1
    THEN [returned |-> FALSE, value |-> "None", errors |-> 1]
    ELSE [returned |-> TRUE, value |-> "None", errors |-> 1]

\* downloader.py:69-84: the attempt-th pass (from 0) of the loop of
\* get_with_retries; raise_for_status turns an error status into an exception
download_attempt(attempt, status) ==
    IF status = 200 THEN [returned |-> TRUE, value |-> "response", errors |-> 0]
    ELSE IF attempt < max_retries - 1
    THEN [returned |-> FALSE, value |-> "None", errors |-> 0]
    ELSE [returned |-> TRUE, value |-> "None", errors |-> 1]

\* base_parser.py:165 with a range that stops one page early
HasNextPage_Exclusive(page_number, last_page) == page_number < last_page

\* base_parser.py:165: for page_number in range(1, last_page + 1)
HasNextPage(page_number, last_page) == page_number <= last_page

ParsingResult ==
    [announcements |-> EmptyDict, total_pages |-> 0, processed_pages |-> 0, errors |-> 0]

\* a first page that leaves the number of pages unset
first_page_Unset(result, last_page) == result

\* base_parser.py:159-160: result.total_pages = last_page
first_page(result, last_page) == [result EXCEPT !.total_pages = last_page]

\* a failed page that is not counted
page_failed_NotCounted(result) == result

\* base_parser.py:175-178 and 188-191: result.errors += 1; continue
page_failed(result) == [result EXCEPT !.errors = @ + 1]

\* a merge that keeps the entry an id already has
update_KeepFirst(d, e) ==
    [k \in DOMAIN d \cup DOMAIN e |-> IF k \in DOMAIN d THEN d[k] ELSE e[k]]

\* dict.update: the entries of e are added to d, replacing those of equal key
update(d, e) ==
    [k \in DOMAIN d \cup DOMAIN e |-> IF k \in DOMAIN e THEN e[k] ELSE d[k]]

\* base_parser.py:183-184
page_done(result, page_announcements) ==
    [result EXCEPT !.announcements = update(@, page_announcements),
                   !.processed_pages = @ + 1]

NoCall == [fn |-> "none", statuses |-> <<>>, sleeps |-> <<>>, value |-> "none"]

ParseStart(parser, soup) ==
    [pc |-> "first", parser |-> parser, soup |-> soup, last_page |-> 0,
     page_number |-> 0, attempt |-> 1, statuses |-> <<>>, sleeps |-> <<>>,
     fetches |-> <<>>, result |-> ParsingResult, returned |-> "none",
     errors |-> 0, last |-> NoCall, pageLog |-> <<>>, clean |-> TRUE]

DownloadStart ==
    [pc |-> "download", parser |-> "none", soup |-> [pagination |-> FALSE, pages |-> <<>>],
     last_page |-> 0, page_number |-> 0, attempt |-> 0, statuses |-> <<>>,
     sleeps |-> <<>>, fetches |-> <<>>, result |-> ParsingResult,
     returned |-> "none", errors |-> 0, last |-> NoCall, pageLog |-> <<>>,
     clean |-> TRUE]

PageEntry(page, outcome, items) == [page |-> page, outcome |-> outcome, items |-> items]

InitParse ==
    /\ ps \in {ParseStart(p, soup) : p \in ParserTypes, soup \in Soups} \cup {DownloadStart}
    /\ sc = NoScore
    /\ ms = NoSites
    /\ dl = NoFiles
    /\ up = NoUpload
    /\ ai = NoInfo
    /\ rm = NoSweep
    /\ multi = FALSE
    /\ f_filtered = AbsentFile
    /\ f_stage1s = AbsentFile
    /\ f_stage2s = AbsentFile
    /\ folder = {}
    /\ pc = "idle"
    /\ run = 0
    /\ todo = {}
    /\ cur = NoId
    /\ already_processed = {}
    /\ stage1_success = {}
    /\ stage2_success = {}
    /\ stats = ProcessingStats
    /\ result1 = "none"
    /\ info = "none"
    /\ result2 = NoResult2
    /\ given = NoGiven
    /\ trace = <<>>
    /\ obs = [this |-> RunObs, prev |-> PrevObs, ever |-> {}]

\* base_parser.py:153 and 174 with 70-94: one session.get of request_with_retry,
\* for the search URL or for the URL of the current page; when the call
\* returns, lines 154-162 (first page) or 175-178 (a page of the loop)
PsFetch ==
    /\ ps.pc \in {"first", "fetch"}
    /\ \E status \in Statuses :
         LET url == IF ps.pc = "first" THEN search_url
                    ELSE build_page_url(ps.parser, search_url, ps.page_number)
             r == request_attempt(ps.attempt, status)
             statuses == Append(ps.statuses, status)
             sleeps == Append(ps.sleeps, r.sleep)
             call == [fn |-> "request_with_retry", statuses |-> statuses,
                      sleeps |-> sleeps, value |-> r.value]
             seen == [ps EXCEPT !.fetches = Append(@, url),
                                !.clean = @ /\ status = 200]
             last_page == get_last_page_number(ps.parser, ps.soup)
         IN ps' = IF ~r.returned
                  THEN [seen EXCEPT !.attempt = @ + 1, !.statuses = statuses,
                                    !.sleeps = sleeps, !.last = NoCall]
                  ELSE IF ps.pc = "first"
                  THEN IF r.value = "None"
                       THEN [seen EXCEPT !.pc = "done", !.returned = "ParsingResult",
                                         !.attempt = 1, !.statuses = <<>>,
                                         !.sleeps = <<>>, !.last = call]
                       ELSE [seen EXCEPT !.pc = "loop", !.last_page = last_page,
                                         !.result = first_page(@, last_page),
                                         !.page_number = 1,
                                         !.attempt = 1, !.statuses = <<>>,
                                         !.sleeps = <<>>, !.last = call]
                  ELSE IF r.value = "None"
                       THEN [seen EXCEPT !.pc = "loop",
                                         !.result = page_failed(@),
                                         !.pageLog = Append(@, PageEntry(ps.page_number, "fetch_failed", EmptyDict)),
                                         !.page_number = @ + 1,
                                         !.attempt = 1, !.statuses = <<>>,
                                         !.sleeps = <<>>, !.last = call]
                       ELSE [seen EXCEPT !.pc = "extract",
                                         !.attempt = 1, !.statuses = <<>>,
                                         !.sleeps = <<>>, !.last = call]
    /\ UNCHANGED <<sc, ms, dl, up, ai, rm, mainvars>>

\* base_parser.py:165-172: the next page of the loop
PsNextPage ==
    /\ ps.pc = "loop"
    /\ HasNextPage(ps.page_number, ps.last_page)
    /\ ps' = [ps EXCEPT !.pc = "fetch", !.last = NoCall]
    /\ UNCHANGED <<sc, ms, dl, up, ai, rm, mainvars>>

\* base_parser.py:180-191: the page is parsed and its announcements merged;
\* an exception counts an error and goes on with the next page
PsExtract ==
    /\ ps.pc = "extract"
    /\ \/ \E items \in PageItems(ps.parser) :
            ps' = [ps EXCEPT !.pc = "loop",
                             !.result = page_done(@, items),
                             !.pageLog = Append(@, PageEntry(ps.page_number, "ok", items)),
                             !.page_number = @ + 1, !.last = NoCall]
       \/ ps' = [ps EXCEPT !.pc = "loop",
                           !.result = page_failed(@),
                           !.pageLog = Append(@, PageEntry(ps.page_number, "extract_raised", EmptyDict)),
                           !.page_number = @ + 1, !.last = NoCall]
    /\ UNCHANGED <<sc, ms, dl, up, ai, rm, mainvars>>

\* base_parser.py:193-203: the loop is over, parse_site returns result
PsReturn ==
    /\ ps.pc = "loop"
    /\ ~HasNextPage(ps.page_number, ps.last_page)
    /\ ps' = [ps EXCEPT !.pc = "done", !.returned = "ParsingResult", !.last = NoCall]
    /\ UNCHANGED <<sc, ms, dl, up, ai, rm, mainvars>>

\* downloader.py:69-84: one session.get of FileDownloader.get_with_retries
PsDownload ==
    /\ ps.pc = "download"
    /\ \E status \in Statuses :
         LET r == download_attempt(ps.attempt, status)
             statuses == Append(ps.statuses, status)
             seen == [ps EXCEPT !.fetches = Append(@, <<"url">>),
                                !.errors = @ + r.errors,
                                !.statuses = statuses]
         IN ps' = IF r.returned
                  THEN [seen EXCEPT !.pc = "done", !.returned = r.value,
                                    !.last = [fn |-> "get_with_retries",
                                              statuses |-> statuses,
                                              sleeps |-> <<>>, value |-> r.value]]
                  ELSE [seen EXCEPT !.attempt = @ + 1]
    /\ UNCHANGED <<sc, ms, dl, up, ai, rm, mainvars>>

NextParse ==
    \/ PsFetch
    \/ PsNextPage
    \/ PsExtract
    \/ PsReturn
    \/ PsDownload

SpecParse == InitParse /\ [][NextParse]_vars

ParseTypeOK ==
    /\ ps.pc \in {"first", "loop", "fetch", "extract", "download", "done"}
    /\ ps.attempt \in 0..max_retries
    /\ ps.page_number \in 0..(MaxPages + 1)
    /\ ps.returned \in {"none", "ParsingResult", "response", "None"}

(***************************************************************************)
(* Discovery as main() calls it (main.py:147-156): process_multiple_sites  *)
(* when more than one site of config.sites is enabled, process_page        *)
(* otherwise.  parse_site of a site is an input here: the map it returns,  *)
(* or an exception raised while the parser is created or runs.             *)
(***************************************************************************)
\* the main variables of a component specification, main() not running
MainAtRest ==
    /\ multi = FALSE
    /\ f_filtered = AbsentFile
    /\ f_stage1s = AbsentFile
    /\ f_stage2s = AbsentFile
    /\ folder = {}
    /\ pc = "idle"
    /\ run = 0
    /\ todo = {}
    /\ cur = NoId
    /\ already_processed = {}
    /\ stage1_success = {}
    /\ stage2_success = {}
    /\ stats = ProcessingStats
    /\ result1 = "none"
    /\ info = "none"
    /\ result2 = NoResult2
    /\ given = NoGiven
    /\ trace = <<>>
    /\ obs = [this |-> RunObs, prev |-> PrevObs, ever |-> {}]

\* config.py:117-139: the names of config.sites, in the order of the list
sites == <<"goszakup.gov.kz", "site2.example.com", "site3.example.com">>

\* outcome of the try block of one site: an exception, or the announcements
\* of the ParsingResult
SiteRaised == [exc |-> TRUE, announcements |-> EmptyDict]
SiteOutcomes ==
    {SiteRaised}
    \cup {[exc |-> FALSE, announcements |-> a] :
             a \in {EmptyDict, [k \in {<<"7">>} |-> "name_a"],
                    [k \in {<<"7">>, <<"8">>} |-> "name_b"]}}

\* a merge under the bare keys
prefixed_results_Bare(site_name, announcements) == announcements

\* parser.py:208-211
prefixed_results(site_name, announcements) ==
    [k \in {prefixed_key(site_name, key) : key \in DOMAIN announcements} |->
        announcements[CHOOSE key \in DOMAIN announcements : prefixed_key(site_name, key) = k]]

SitesStart(enabled) ==
    [pc |-> "main", enabled |-> enabled, i |-> 1, all_results |-> EmptyDict,
     siteLog |-> <<>>, full_data |-> EmptyDict]

SiteEntry(site, outcome) == [site |-> site, outcome |-> outcome]

InitSites ==
    /\ ms \in {SitesStart(enabled) : enabled \in SUBSET {sites[i] : i \in 1..Len(sites)}}
    /\ sc = NoScore
    /\ ps = NoParse
    /\ dl = NoFiles
    /\ up = NoUpload
    /\ ai = NoInfo
    /\ rm = NoSweep
    /\ MainAtRest

\* main.py:147-156: the choice between the two discovery functions
MsDiscover ==
    /\ ms.pc = "main"
    /\ ms' = [ms EXCEPT !.pc = IF Cardinality(ms.enabled) > 1 THEN "sites" ELSE "page"]
    /\ UNCHANGED <<sc, ps, dl, up, ai, rm, mainvars>>

\* parser.py:193-219: one pass of the loop over config.sites
MsSite ==
    /\ ms.pc = "sites"
    /\ ms.i <= Len(sites)
    /\ LET site_name == sites[ms.i] IN
       IF site_name \notin ms.enabled
       THEN ms' = [ms EXCEPT !.i = @ + 1]
       ELSE \E outcome \in SiteOutcomes :
              ms' = [ms EXCEPT
                       !.i = @ + 1,
                       !.siteLog = Append(@, SiteEntry(site_name, outcome)),
                       !.all_results =
                           IF outcome.exc THEN @
                           ELSE update(@, prefixed_results(site_name, outcome.announcements))]
    /\ UNCHANGED <<sc, ps, dl, up, ai, rm, mainvars>>

\* parser.py:221-222
MsSitesReturn ==
    /\ ms.pc = "sites"
    /\ ms.i > Len(sites)
    /\ ms' = [ms EXCEPT !.pc = "done", !.full_data = ms.all_results]
    /\ UNCHANGED <<sc, ps, dl, up, ai, rm, mainvars>>

\* parser.py:157-179: process_page(PAGE_URL), always with the goszakup parser
MsPage ==
    /\ ms.pc = "page"
    /\ \E outcome \in SiteOutcomes :
         ms' = [ms EXCEPT !.pc = "done",
                          !.siteLog = Append(@, SiteEntry(sites[1], outcome)),
                          !.full_data = outcome.announcements]
    /\ UNCHANGED <<sc, ps, dl, up, ai, rm, mainvars>>

NextSites ==
    \/ MsDiscover
    \/ MsSite
    \/ MsSitesReturn
    \/ MsPage

SpecSites == InitSites /\ [][NextSites]_vars

(***************************************************************************)
(* download_file (downloader.py:184-289), called again and again for one   *)
(* category on the folder of one announcement.  The file list, the HEAD    *)
(* and GET answers and the outcome of the write are inputs.  A file is a   *)
(* name in the folder; file_name(c, 0, ext) is "<c><ext>" and              *)
(* file_name(c, n, ext) is "<c>_<n><ext>".                                 *)
(***************************************************************************)
MaxCalls == 2
MaxLinks == 2

category_id == "c"

file_name(category, counter, ext) == [category |-> category, counter |-> counter, ext |-> ext]

\* the Content-Disposition header of the HEAD answer
ContentDispositions == {"none", "filename=spec.docx", "filename=scan.pdf"}

\* downloader.py:232-245: ".pdf" unless the header declares a file name
extension(content_disposition) ==
    CASE content_disposition = "filename=spec.docx" -> ".docx"
      [] content_disposition = "filename=scan.pdf" -> ".pdf"
      [] OTHER -> ".pdf"

\* downloader.py:250-252: the while loop, file_path and counter being its
\* variables
RECURSIVE next_path(_, _, _, _)
next_path(files, ext, file_path, counter) ==
    IF file_path \in files
    THEN next_path(files, ext, file_name(category_id, counter, ext), counter + 1)
    ELSE file_path

\* a loop that begins at the first suffixed name
unique_path_FromOne(files, ext) == next_path(files, ext, file_name(category_id, 1, ext), 2)

\* downloader.py:248-252
unique_path(files, ext) == next_path(files, ext, file_name(category_id, 0, ext), 1)

DownloadStats == [downloaded_files |-> 0, skipped_files |-> 0, errors |-> 0]

\* what happens to a link that is not skipped before the naming
SaveOutcomes == {"get_failed", "open_failed", "write_failed", "saved"}

FilesStart ==
    [pc |-> "idle", files |-> {}, calls |-> 0, start |-> {}, links |-> 0,
     log |-> <<>>, downloaded_count |-> 0, stats |-> DownloadStats,
     returned |-> "none", listed |-> 0, seen |-> <<>>]

\* one pass of the loop, whatever its end: whether the href holds
\* "signature", what became of the HEAD request, whether the GET request was
\* made and whether the file was written to its end
Pass(signature, head, get, saved) ==
    [signature |-> signature, head |-> head, get |-> get, saved |-> saved]

\* a result that asks for more than one file
download_result_Several(downloaded_count) ==
    IF downloaded_count > 1 THEN "True" ELSE "False"

\* downloader.py:285: return downloaded_count > 0
download_result(downloaded_count) ==
    IF downloaded_count > 0 THEN "True" ELSE "False"

\* one pass of the loop that reached line 248: the extension, whether
\* "<c><ext>" was in the folder when the call began, the path chosen, whether
\* the path existed when it was chosen, and what was done
LinkEntry(ext, before, file_path, existed, action) ==
    [ext |-> ext, before |-> before, file_path |-> file_path, existed |-> existed,
     action |-> action]

InitFiles ==
    /\ dl = FilesStart
    /\ sc = NoScore
    /\ ps = NoParse
    /\ ms = NoSites
    /\ up = NoUpload
    /\ ai = NoInfo
    /\ rm = NoSweep
    /\ MainAtRest

\* downloader.py:197-217: the file list; None or a list without links
\* returns False, and so does a mkdir that raises (287-289)
DlCall ==
    /\ dl.pc = "idle"
    /\ dl.calls < MaxCalls
    /\ \E response \in BOOLEAN, file_links \in 0..MaxLinks, mkdir \in BOOLEAN :
         dl' = IF ~response \/ file_links = 0 \/ ~mkdir
               THEN [dl EXCEPT !.calls = @ + 1, !.start = dl.files, !.links = 0,
                               !.log = <<>>, !.downloaded_count = 0,
                               !.stats = DownloadStats, !.returned = "False",
                               !.listed = IF response THEN file_links ELSE 0,
                               !.seen = <<>>]
               ELSE [dl EXCEPT !.pc = "links", !.calls = @ + 1, !.start = dl.files,
                               !.links = file_links, !.log = <<>>,
                               !.downloaded_count = 0, !.stats = DownloadStats,
                               !.returned = "none", !.listed = file_links,
                               !.seen = <<>>]
    /\ UNCHANGED <<sc, ps, ms, up, ai, rm, mainvars>>

\* downloader.py:219-282: one pass of the loop over file_links
DlLink ==
    /\ dl.pc = "links"
    /\ dl.links > 0
    /\ \/ \* a signature link (221-222)
          dl' = [dl EXCEPT !.links = @ - 1,
                           !.seen = Append(@, Pass(TRUE, "none", FALSE, FALSE))]
       \/ \* a failed HEAD request (225-230)
          dl' = [dl EXCEPT !.links = @ - 1,
                           !.seen = Append(@, Pass(FALSE, "failed", FALSE, FALSE))]
       \/ \E content_disposition \in ContentDispositions, outcome \in SaveOutcomes :
            LET ext == extension(content_disposition)
                file_path == unique_path(dl.files, ext)
                existed == file_path \in dl.files
                before == file_name(category_id, 0, ext) \in dl.start
                entry(action) == LinkEntry(ext, before, file_path, existed, action)
            IN dl' = IF existed
                     THEN [dl EXCEPT !.links = @ - 1,
                                     !.stats.skipped_files = @ + 1,
                                     !.log = Append(@, entry("skipped")),
                                     !.seen = Append(@, Pass(FALSE, "ok", FALSE, FALSE))]
                     ELSE IF outcome \in {"get_failed", "open_failed"}
                     THEN [dl EXCEPT !.links = @ - 1,
                                     !.stats.errors = @ + 1,
                                     !.log = Append(@, entry(outcome)),
                                     !.seen = Append(@, Pass(FALSE, "ok", TRUE, FALSE))]
                     ELSE IF outcome = "write_failed"
                     THEN [dl EXCEPT !.links = @ - 1,
                                     !.files = @ \cup {file_path},
                                     !.stats.errors = @ + 1,
                                     !.log = Append(@, entry(outcome)),
                                     !.seen = Append(@, Pass(FALSE, "ok", TRUE, FALSE))]
                     ELSE [dl EXCEPT !.links = @ - 1,
                                     !.files = @ \cup {file_path},
                                     !.downloaded_count = @ + 1,
                                     !.stats.downloaded_files = @ + 1,
                                     !.log = Append(@, entry(outcome)),
                                     !.seen = Append(@, Pass(FALSE, "ok", TRUE, TRUE))]
    /\ UNCHANGED <<sc, ps, ms, up, ai, rm, mainvars>>

\* downloader.py:284-285
DlReturn ==
    /\ dl.pc = "links"
    /\ dl.links = 0
    /\ dl' = [dl EXCEPT !.pc = "idle",
                        !.returned = download_result(dl.downloaded_count)]
    /\ UNCHANGED <<sc, ps, ms, up, ai, rm, mainvars>>

NextFiles ==
    \/ DlCall
    \/ DlLink
    \/ DlReturn

SpecFiles == InitFiles /\ [][NextFiles]_vars

(***************************************************************************)
(* The intake submitter (uploader.py): one call of executor(item), or of   *)
(* upload(...) directly.  A string is a sequence of characters; None and   *)
(* the empty string, both falsy, are the empty sequence.  The file, its    *)
(* checksum and the answer to the POST are inputs.                         *)
(***************************************************************************)
bin_length == 12
md5_length == 32

Digits == {"0", "1", "2", "3", "4", "5", "6", "7", "8", "9"}
Rep(c, n) == [i \in 1..n |-> c]

\* str.isdigit
isdigit(s) == Len(s) > 0 /\ \A i \in 1..Len(s) : s[i] \in Digits

CompanyNames == {<<>>, <<"T", "O", "O">>}
Bins ==
    {<<>>, Rep("1", bin_length - 1), Rep("1", bin_length), Rep("1", bin_length + 1),
     [i \in 1..bin_length |-> IF i = bin_length THEN "x" ELSE "1"]}
Messages == {<<>>, <<"m">>}
Files == {<<>>, <<"b">>}
Md5sums == {<<>>, Rep("a", md5_length - 1), Rep("a", md5_length), Rep("a", md5_length + 1)}

\* a validation that does not look at the length of the organizer id
validate_input_data_AnyLength(company_name, bin, message, file, md5sum) ==
    IF company_name = <<>> \/ bin = <<>> \/ message = <<>> \/ file = <<>> \/ md5sum = <<>>
    THEN "ValueError"
    ELSE IF ~isdigit(bin) THEN "ValueError"
    ELSE IF md5sum = <<>> \/ Len(md5sum) # md5_length THEN "ValueError"
    ELSE "None"

\* uploader.py:51-64
validate_input_data(company_name, bin, message, file, md5sum) ==
    IF company_name = <<>> \/ bin = <<>> \/ message = <<>> \/ file = <<>> \/ md5sum = <<>>
    THEN "ValueError"
    ELSE IF ~isdigit(bin) \/ Len(bin) # bin_length THEN "ValueError"
    ELSE IF file = <<>> THEN "ValueError"
    ELSE IF md5sum = <<>> \/ Len(md5sum) # md5_length THEN "ValueError"
    ELSE "None"

\* what session.post and the reading of the answer come to: the exception
\* raised inside the try block of lines 114-129, or a document id
PostOutcomes == {"RequestException", "KeyError", "StopIteration", "TypeError", "document_id"}

\* an upload that lets an unexpected exception through
post_result_Unhandled(outcome) ==
    IF outcome = "document_id" THEN [raised |-> FALSE, value |-> "doc"]
    ELSE IF outcome = "TypeError" THEN [raised |-> TRUE, value |-> "none"]
    ELSE [raised |-> FALSE, value |-> "None"]

\* uploader.py:126-140
post_result(outcome) ==
    IF outcome = "document_id" THEN [raised |-> FALSE, value |-> "doc"]
    ELSE [raised |-> FALSE, value |-> "None"]

\* uploader.py:190-201 and 230-254: the message always has its eight lines;
\* dates that cannot be parsed are replaced
format_tender_message(dates) == IF dates THEN <<"m", "d">> ELSE <<"m", "?">>

ExecutorStart(announcement_id, company_name, bin, dates) ==
    [pc |-> "executor", entry |-> "executor", announcement_id |-> announcement_id,
     company_name |-> company_name, bin |-> bin, dates |-> dates, message |-> <<>>,
     file |-> <<>>, md5sum |-> <<>>, at |-> "none", posts |-> 0, post |-> "none",
     returned |-> "none", raised |-> FALSE]

UploadStart(company_name, bin, message, file, md5sum) ==
    [pc |-> "upload", entry |-> "upload", announcement_id |-> <<>>,
     company_name |-> company_name, bin |-> bin, dates |-> TRUE, message |-> message,
     file |-> file, md5sum |-> md5sum, at |-> "none", posts |-> 0, post |-> "none",
     returned |-> "none", raised |-> FALSE]

InitUpload ==
    /\ up \in {ExecutorStart(a, c, b, d) :
                  a \in {<<>>, <<"7">>}, c \in CompanyNames, b \in Bins, d \in BOOLEAN}
            \cup {UploadStart(c, b, m, f, h) :
                  c \in CompanyNames, b \in Bins, m \in Messages, f \in Files, h \in Md5sums}
    /\ sc = NoScore
    /\ ps = NoParse
    /\ ms = NoSites
    /\ dl = NoFiles
    /\ ai = NoInfo
    /\ rm = NoSweep
    /\ MainAtRest

\* uploader.py:173-201
UpExecutor ==
    /\ up.pc = "executor"
    /\ up' = IF up.announcement_id = <<>> \/ up.company_name = <<>> \/ up.bin = <<>>
             THEN [up EXCEPT !.pc = "done", !.at = "executor", !.returned = "None"]
             ELSE [up EXCEPT !.pc = "file", !.message = format_tender_message(up.dates)]
    /\ UNCHANGED <<sc, ps, ms, dl, ai, rm, mainvars>>

\* uploader.py:205-208
UpFile ==
    /\ up.pc = "file"
    /\ \E file \in Files :
         up' = IF file = <<>>
               THEN [up EXCEPT !.pc = "done", !.at = "file", !.returned = "None"]
               ELSE [up EXCEPT !.pc = "md5", !.file = file]
    /\ UNCHANGED <<sc, ps, ms, dl, ai, rm, mainvars>>

\* uploader.py:210-213; file_utils.py:249-290 gives a hex digest or None
UpMd5 ==
    /\ up.pc = "md5"
    /\ \E md5sum \in {<<>>, Rep("a", md5_length)} :
         up' = IF md5sum = <<>>
               THEN [up EXCEPT !.pc = "done", !.at = "md5", !.returned = "None"]
               ELSE [up EXCEPT !.pc = "upload", !.md5sum = md5sum]
    /\ UNCHANGED <<sc, ps, ms, dl, ai, rm, mainvars>>

\* uploader.py:84-88: upload begins with the validation
UpValidate ==
    /\ up.pc = "upload"
    /\ up' = IF validate_input_data(up.company_name, up.bin, up.message, up.file, up.md5sum)
                = "ValueError"
             THEN [up EXCEPT !.pc = "done", !.at = "validate", !.returned = "None"]
             ELSE [up EXCEPT !.pc = "post"]
    /\ UNCHANGED <<sc, ps, ms, dl, ai, rm, mainvars>>

\* uploader.py:114-140 and 216-223: the POST and the reading of its answer
UpPost ==
    /\ up.pc = "post"
    /\ \E outcome \in PostOutcomes :
         LET r == post_result(outcome) IN
         up' = [up EXCEPT !.pc = "done", !.at = "post", !.posts = @ + 1, !.post = outcome,
                          !.returned = r.value, !.raised = r.raised]
    /\ UNCHANGED <<sc, ps, ms, dl, ai, rm, mainvars>>

NextUpload ==
    \/ UpExecutor
    \/ UpFile
    \/ UpMd5
    \/ UpValidate
    \/ UpPost

SpecUpload == InitUpload /\ [][NextUpload]_vars

(***************************************************************************)
(* Properties.                                                             *)
(***************************************************************************)
Count(seq, w) == Cardinality({i \in 1..Len(seq) : seq[i] = w})

\* C2: the key set of the persisted filtered map only grows: whenever the
\* process is not running, every key filtered.json has ever held is still
\* a key of filtered.json.
C2_FilteredOnlyGrows ==
    pc = "idle" => obs.ever \subseteq get_results_from_json(f_filtered)

\* C3: a second run on the same discovered set, after a completed run, issues
\* no stage-1 model call, no document acquisition and no deep-analysis call.
C3_IdempotentRestart ==
    (obs.prev.exit = "done" /\ obs.this.same) => obs.this.calls = {}

\* C4: after an interrupt in the announcement loop every id that passed
\* stage 1 before the interrupt, the in-flight one excepted, is recorded in
\* the stage1-success file.
C4_CrashConsistency ==
    obs.this.exit = "interrupted" =>
        (obs.this.passed1 \ {obs.this.inflight}) \subseteq get_results_from_json(f_stage1s)

\* C5: an id the stage1-success file held when a run started, written by an
\* earlier completed run, is still in that file when the run has completed.
C5_StageFilesDurable ==
    (obs.prev.exit = "done" /\ obs.this.exit = "done") =>
        obs.this.startStage1 \subseteq get_results_from_json(f_stage1s)

\* C6: an announcement whose stage-1 result was "unknown" in a completed run
\* and that is discovered again by the next run gets a stage-1 model call
\* in that run.
C6_UnknownRetriedNextRun ==
    (obs.prev.exit = "done" /\ obs.this.exit = "done") =>
        \A id \in obs.prev.unknown :
            (\E k \in obs.this.data : original_id(k) = id) => id \in obs.this.st1

\* C7: the id is in filtered.json before the stage-1 request is issued, and
\* an announcement whose processing failed or was interrupted after that
\* write in a run is not processed by the next run.
C7_CheckpointThenAct ==
    /\ pc = "pa_stage1" =>
          cur \in already_processed /\ cur \in get_results_from_json(f_filtered)
    /\ InProcess => cur \notin obs.prev.failed

\* C9: executor is invoked only after final_score returned "da", final_score
\* only after acquisition returned a result, acquisition only after a
\* stage-1 result "vozmozhno"; a rejected announcement never reaches the
\* upload step.
C9_StateMachineOrdering ==
    /\ Contains(trace, "executor") =>
          result2.decision = "da" /\ Contains(trace, "final_score")
    /\ Contains(trace, "final_score") =>
          info = "info" /\ Contains(trace, "process_by_announcement_id")
    /\ Contains(trace, "process_by_announcement_id") => result1 = "vozmozhno"
    /\ (result1 \in {"net", "neizvestno"} \/ result2.decision = "net") =>
          ~Contains(trace, "executor")

C9_Witness ==
    /\ pc = "loop"
    /\ Contains(trace, "final_score")
    /\ info = "info"
    /\ result1 = "vozmozhno"
    /\ result2.decision = "net"

\* C10: an announcement classified "possible" at stage 1, whose documents
\* hold 3 keywords in a text of length 500 and whose classification call
\* answers "yes", ends with one entry in stage2 success and exactly one
\* upload attempt.
C10_EndToEndAcceptance ==
    ( /\ pc = "loop"
      /\ cur # NoId
      /\ result1 = "vozmozhno"
      /\ info = "info"
      /\ given.text = [kw |-> 3, len |-> 500]
      /\ given.answer = "da"
      /\ given.trOk ) =>
        (cur \in stage2_success /\ Count(trace, "executor") = 1)

(***************************************************************************)
(* Properties of final_score (SpecScore).                                  *)
(***************************************************************************)
IsDocSummary(c) == c.fn = "summary" /\ c.arg.kind = "doc"
IsModelCall(c) == c.fn \in {"summary", "classify"}
CeilDiv(a, b) == (a + b - 1) \div b
FirstTruthy(outs) ==
    CHOOSE i \in 1..Len(outs) : Truthy(outs[i]) /\ \A j \in 1..(i-1) : ~Truthy(outs[j])
SomeTruthy(outs) == \E i \in 1..Len(outs) : Truthy(outs[i])

\* C11: for an empty or missing text, and for a text in which fewer than
\* keyword_threshold distinct keywords occur, final_score issues no model
\* call at all and returns decision "net" with an empty summary.
C11_KeywordGate ==
    (sc.pc # "off" /\ (sc.text.len = 0 \/ sc.text.kw < keyword_threshold)) =>
        /\ sc.calls = <<>>
        /\ sc.pc = "done" => sc.result = ModelResponse("net", "")

C11_Witness ==
    /\ sc.pc = "done"
    /\ sc.text = [kw |-> 1, len |-> 500]
    /\ sc.result.decision = "net"

\* C12: when _process_long_text runs (a text longer than chunk_size that
\* passed the keyword gate) no summarization call is given a character at a
\* position >= max_chunks * chunk_size, the chunks are sent in increasing
\* order, and once the loop is over the chunks summarized are exactly the
\* slices [i*chunk_size, (i+1)*chunk_size) for i < min(ceil(L/chunk_size),
\* max_chunks).
C12_ChunkingBound ==
    (sc.pc # "off" /\ sc.text.len > chunk_size /\ has_enough_keywords(sc.text)) =>
        LET docCalls == SelectSeq(sc.calls, IsDocSummary)
            L == sc.text.len
            N == Min(CeilDiv(L, chunk_size), max_chunks)
        IN /\ \A j \in 1..Len(docCalls) : docCalls[j].arg.to <= max_chunks * chunk_size
           /\ \A j, k \in 1..Len(docCalls) :
                 j < k => docCalls[j].arg.from <= docCalls[k].arg.from
           /\ sc.pc \in {"long_full", "classify", "translate", "done"} =>
                 /\ Len(sc.summaries) = N
                 /\ {docCalls[j].arg : j \in 1..Len(docCalls)} =
                       {Slice(i * chunk_size, Min((i + 1) * chunk_size, L)) : i \in 0..(N - 1)}

C12_Witness ==
    /\ sc.pc = "done"
    /\ sc.text.len = 15001
    /\ Len(sc.summaries) = max_chunks

C14_RetryCoverage ==
    (sc.pc # "off") =>
        \A j \in 1..Len(sc.calls) : IsModelCall(sc.calls[j]) => sc.calls[j].wrapped

\* C15: when final_score has returned, the translation call was issued
\* exactly once if the normalized decision is "da" and not at all if it is
\* "net".
C15_TranslateOnlyOnAccept ==
    (sc.pc = "done") =>
        LET n == Cardinality({j \in 1..Len(sc.calls) : sc.calls[j].fn = "translate"})
        IN /\ sc.decision = "da" => n = 1
           /\ sc.decision # "da" => n = 0

\* C16: a failed translation call reaches the caller of final_score as an
\* exception, and never turns a classification result "da" into a returned
\* decision "net".
C16_TranslationFailurePropagates ==
    (sc.pc = "done" /\ sc.trFailed) =>
        /\ sc.result = Propagated
        /\ ~(sc.decision = "da" /\ sc.result.decision = "net")

(***************************************************************************)
(* Properties of discovery and of the HTTP retry loops (SpecParse).        *)
(***************************************************************************)
NotOk(log) == {j \in 1..Len(log) : log[j].outcome # "ok"}
Ok(log) == {j \in 1..Len(log) : log[j].outcome = "ok"}

\* C17: in a completed request_with_retry every 429 answer was followed by
\* a 60 s sleep and another attempt, and the call gave up (returned None)
\* only after max_retries answers other than 429 had failed.
C17_RateLimitNotCounted ==
    (ps.pc # "off" /\ ps.last.fn = "request_with_retry") =>
        LET st == ps.last.statuses IN
        /\ \A j \in 1..Len(st) :
              st[j] = 429 => ps.last.sleeps[j] = rate_limit_sleep /\ j < Len(st)
        /\ ps.last.value = "None" =>
              Cardinality({j \in 1..Len(st) : st[j] \notin {200, 429}}) >= max_retries

\* C18: request_with_retry and get_with_retries make at most max_retries
\* attempts, make no attempt after a 200 answer and return that response,
\* return None once max_retries attempts have failed, and get_with_retries
\* has then counted exactly one error.
C18_BoundedHttpRetry ==
    (ps.pc # "off") =>
        /\ ps.pc # "done" => Len(ps.statuses) < max_retries
        /\ ps.last.fn # "none" =>
              LET st == ps.last.statuses
                  n == Len(st) IN
              /\ n \in 1..max_retries
              /\ \A j \in 1..(n - 1) : st[j] # 200
              /\ st[n] = 200 => ps.last.value = "response"
              /\ st[n] # 200 => n = max_retries /\ ps.last.value = "None"
              /\ ps.last.fn = "get_with_retries" =>
                    ps.errors = IF ps.last.value = "None" THEN 1 ELSE 0

C18_Witness ==
    /\ ps.pc = "done"
    /\ ps.last.fn = "get_with_retries"
    /\ ps.last.statuses = <<500, RequestException, 500>>
    /\ ps.last.value = "None"
    /\ ps.errors = 1

\* C19: in parse_site every page of the loop whose fetch failed or whose
\* extraction raised added exactly one to result.errors and nothing to
\* result.announcements, the pages are taken one after the other without a
\* gap, and parse_site returns a ParsingResult after the last page.
C19_GracefulPageFailure ==
    (ps.pc # "off" /\ ps.parser # "none") =>
        /\ ps.result.errors = Cardinality(NotOk(ps.pageLog))
        /\ ps.result.processed_pages = Cardinality(Ok(ps.pageLog))
        /\ DOMAIN ps.result.announcements =
              UNION {DOMAIN ps.pageLog[j].items : j \in Ok(ps.pageLog)}
        /\ \A j \in 1..Len(ps.pageLog) : ps.pageLog[j].page = j
        /\ ps.pc = "done" =>
              /\ ps.returned = "ParsingResult"
              /\ ps.last_page > 0 =>
                    /\ Len(ps.pageLog) = ps.last_page
                    /\ \A n \in 1..ps.last_page :
                          Contains(ps.fetches, build_page_url(ps.parser, search_url, n))

C19_Witness ==
    /\ ps.pc = "done"
    /\ ps.last_page = 3
    /\ Len(ps.pageLog) = 3
    /\ ps.pageLog[1].outcome = "fetch_failed"
    /\ ps.pageLog[2].outcome = "extract_raised"
    /\ ps.pageLog[3].outcome = "ok"
    /\ ps.result.errors = 2

\* C20: when every request was answered 200, parse_site has requested the
\* search URL once and then build_page_url(search_url, n) once for each
\* n = 1, ..., N in this order, N being the last page number read from the
\* first page: N + 1 requests in all.
C20_PaginationFetchSequence ==
    (ps.pc = "done" /\ ps.parser # "none" /\ ps.clean) =>
        LET N == get_last_page_number(ps.parser, ps.soup) IN
        ps.fetches = <<search_url>> \o
                     [n \in 1..N |-> build_page_url(ps.parser, search_url, n)]

C20_Witness ==
    /\ ps.pc = "done"
    /\ ps.parser = "goszakup"
    /\ ps.clean
    /\ ps.last_page = 3
    /\ Len(ps.fetches) = 4

\* the ids pages 1..j-1 of the log have contributed
Before(log, j) == UNION {DOMAIN log[i].items : i \in Ok(log) \cap 1..(j-1)}

RECURSIVE SumTo(_, _)
SumTo(f, n) == IF n = 0 THEN 0 ELSE f[n] + SumTo(f, n - 1)

\* C21: the key set of the announcement map of parse_site is the union of
\* the ids extracted from the successfully processed pages, so its size is
\* the sum of the per-page counts minus the ids a page repeats from an
\* earlier page; an id listed on several pages carries the entry of the
\* highest-numbered of them.
C21_CrossPageMerge ==
    (ps.pc # "off" /\ ps.parser # "none") =>
        LET log == ps.pageLog
            ann == ps.result.announcements
            count == [j \in 1..Len(log) |-> Cardinality(DOMAIN log[j].items)]
            collisions == [j \in 1..Len(log) |->
                              Cardinality(DOMAIN log[j].items \cap Before(log, j))]
        IN /\ DOMAIN ann = UNION {DOMAIN log[j].items : j \in Ok(log)}
           /\ Cardinality(DOMAIN ann) = SumTo(count, Len(log)) - SumTo(collisions, Len(log))
           /\ \A id \in DOMAIN ann :
                 \E j \in Ok(log) :
                    /\ id \in DOMAIN log[j].items
                    /\ \A i \in Ok(log) : id \in DOMAIN log[i].items => log[i].page <= log[j].page
                    /\ ann[id] = log[j].items[id]

C21_Witness ==
    /\ ps.pc = "done"
    /\ Len(ps.pageLog) = 3
    /\ ps.pageLog[1].outcome = "ok" /\ ps.pageLog[1].items = [k \in {<<"7">>, <<"8">>} |-> "name_b"]
    /\ ps.pageLog[2].outcome = "fetch_failed"
    /\ ps.pageLog[3].outcome = "ok" /\ ps.pageLog[3].items = [k \in {<<"7">>} |-> "name_a"]
    /\ ps.result.announcements[<<"7">>] = "name_a"
    /\ ps.result.announcements[<<"8">>] = "name_b"

(***************************************************************************)
(* Properties of the choice of the discovery function (SpecSites).         *)
(***************************************************************************)
SiteOk(log) == {j \in 1..Len(log) : ~log[j].outcome.exc}

C22_WitnessSingle ==
    /\ ms.pc = "done"
    /\ ms.enabled = {"site3.example.com"}
    /\ DOMAIN ms.full_data = {<<"7">>, <<"8">>}

(***************************************************************************)
(* Properties of download_file (SpecFiles).                                *)
(***************************************************************************)
Opened(log) == {j \in 1..Len(log) : log[j].action \in {"write_failed", "saved"}}

\* C23: a link whose file name "<c><ext>" was already in the folder when
\* download_file was called is skipped and counted in skipped_files, and no
\* file is added to the folder for it.
C23_ResumableAcquisition ==
    (dl.pc # "off") =>
        /\ \A j \in 1..Len(dl.log) : dl.log[j].before => dl.log[j].action = "skipped"
        /\ dl.stats.skipped_files = Cardinality({j \in 1..Len(dl.log) : dl.log[j].before})

\* C24: download_file never opens for writing a path that exists, the
\* paths it opens in one call are pairwise distinct, and the files of one
\* extension in the folder are named <c><ext>, <c>_1<ext>, <c>_2<ext>, ...
\* without a gap, the newest having the largest suffix.
C24_FileNamingWithoutCollision ==
    (dl.pc # "off") =>
        /\ \A j \in Opened(dl.log) : ~dl.log[j].existed /\ dl.log[j].file_path \notin dl.start
        /\ \A i, j \in Opened(dl.log) : i # j => dl.log[i].file_path # dl.log[j].file_path
        /\ \A f \in dl.files :
              /\ f.category = category_id
              /\ \A n \in 0..(f.counter - 1) : file_name(category_id, n, f.ext) \in dl.files
        /\ \A j \in Opened(dl.log) :
              dl.log[j].file_path.counter =
                 Cardinality({f \in dl.start : f.ext = dl.log[j].ext})
                 + Cardinality({i \in Opened(dl.log) : i < j /\ dl.log[i].ext = dl.log[j].ext})

C24_Witness ==
    /\ dl.calls = 2
    /\ dl.pc = "idle"
    /\ dl.returned = "True"
    /\ dl.files = {file_name(category_id, n, ".pdf") : n \in 0..2}
    /\ Len(dl.log) = 2
    /\ dl.log[1].file_path = file_name(category_id, 1, ".pdf")
    /\ dl.log[2].file_path = file_name(category_id, 2, ".pdf")

(***************************************************************************)
(* Properties of acquisition, of the error handling of                     *)
(* process_announcement and of the stage-1 mapping (Spec).                 *)
(***************************************************************************)
\* C25: once acquisition has run for an announcement without downloading a
\* new file, the announcement is counted as failed and final_score is
\* neither invoked nor about to be invoked for it.
C25_AcquisitionHardStop ==
    (Contains(trace, "process_by_announcement_id") /\ ~given.downloaded) =>
        /\ pc # "pa_score"
        /\ ~Contains(trace, "final_score")
        /\ cur \in obs.this.failed

\* C28: an exception raised inside process_announcement (the TypeError of
\* main.py:75) adds exactly one to stats.errors and gives the control back
\* to the loop of main() with the keys not yet reached untouched; the loop
\* ends only when no key is left or on an interruption, so that a run that
\* has saved its results has reached every key of the discovered map.
C28_PerItemFaultIsolation ==
    /\ [][(pc = "pa_score" /\ pc' # "idle" /\ ~Subscriptable(result2')) =>
            /\ pc' = "loop"
            /\ stats'.errors = stats.errors + 1
            /\ todo' = todo]_vars
    /\ [][(pc = "loop" /\ todo # {}) =>
            \/ pc' \in {"loop", "pa_dump"}
            \/ pc' = "idle" /\ obs'.this.exit = "interrupted"]_vars
    /\ [](obs.this.exit = "done" =>
            \A k \in obs.this.data : original_id(k) \in already_processed)

\* the second announcement has begun after final_score raised for the first
C28_Witness ==
    /\ pc = "pa_stage1"
    /\ stats.total_processed = 2
    /\ stats.errors = 1
    /\ "final_score" \in obs.this.calls
    /\ run = 1

\* C29: right after request_to_model, result1 is one of the three values;
\* it is "vozmozhno" exactly when the lower-cased response contains
\* "vozmozhno", otherwise "net" exactly when it contains "net", otherwise
\* "neizvestno", which is also the value for a failed or empty request;
\* acquisition is reached with "vozmozhno" only.
C29_Stage1Mapping ==
    /\ (trace = <<"request_to_model">>) =>
          LET raw_output == LowerText(given.resp.text)
              possible == \E i \in 1..Len(raw_output) : "vozmozhno" \in Within(raw_output[i])
              no == \E i \in 1..Len(raw_output) : "net" \in Within(raw_output[i])
          IN /\ result1 \in {"vozmozhno", "net", "neizvestno"}
             /\ result1 = "vozmozhno" <=> (given.resp.ok /\ possible)
             /\ result1 = "net" <=> (given.resp.ok /\ ~possible /\ no)
             /\ (~given.resp.ok \/ given.resp.text = <<>>) => result1 = "neizvestno"
             /\ pc \in {"pa_acquire", "loop"}
             /\ pc = "pa_acquire" <=> result1 = "vozmozhno"
    /\ Contains(trace, "process_by_announcement_id") => result1 = "vozmozhno"

C29_Witness ==
    /\ trace = <<"request_to_model">>
    /\ given.resp = [ok |-> TRUE, text |-> <<"net", "vozmozhno">>]
    /\ result1 = "vozmozhno"
    /\ pc = "pa_acquire"

(***************************************************************************)
(* Properties of the normalisation of the decision (SpecScore).            *)
(***************************************************************************)
\* C30: the decision of a completed classification is "da" exactly when
\* the answer _retry_model_request returned, trimmed and lower-cased,
\* starts with "da", and "net" otherwise, the default of an exhausted retry
\* included.
C30_NormalizeDecision ==
    (sc.pc \in {"translate", "done"} /\ sc.last.fn = "classify") =>
        LET response == LowerText(Strip(sc.last.value)) IN
        /\ sc.decision \in {"da", "net"}
        /\ sc.decision = "da" <=>
              (Len(response) > 0 /\ response[1] \in {"da", "dalee"})

C30_Witness ==
    /\ sc.pc = "translate"
    /\ sc.last.fn = "classify"
    /\ sc.last.value = <<"dalee">>
    /\ sc.decision = "da"

C30_WitnessDefault ==
    /\ sc.pc = "translate"
    /\ sc.last.fn = "classify"
    /\ Len(sc.last.outs) = max_retry
    /\ \A i \in 1..max_retry : ~Truthy(sc.last.outs[i])
    /\ sc.decision = "net"

(***************************************************************************)
(* Properties of the intake submitter (SpecUpload).                        *)
(***************************************************************************)
Valid(u) ==
    /\ u.company_name # <<>> /\ u.bin # <<>> /\ u.message # <<>>
    /\ u.file # <<>> /\ u.md5sum # <<>>
    /\ Len(u.bin) = 12
    /\ \A i \in 1..Len(u.bin) : u.bin[i] \in Digits
    /\ Len(u.md5sum) = 32

\* C26: upload reaches the POST only with a non-empty company name,
\* organizer id, message, file and checksum, an id of exactly 12 digits and
\* a checksum of exactly 32 characters; with any other input it returns None
\* and no POST has been issued.
C26_UploadValidation ==
    (up.pc # "off") =>
        /\ (up.pc = "post" \/ up.posts > 0) => Valid(up)
        /\ (up.pc = "done" /\ up.at = "validate") =>
              /\ ~Valid(up)
              /\ up.returned = "None"
              /\ up.posts = 0
        /\ (up.pc = "done" /\ (up.entry = "upload" \/ up.at \in {"validate", "post"}) /\ Valid(up)) =>
              up.posts = 1

C26_Witness ==
    /\ up.pc = "done"
    /\ up.entry = "upload"
    /\ up.at = "validate"
    /\ up.company_name # <<>> /\ up.message # <<>> /\ up.file # <<>>
    /\ up.bin = Rep("1", 11)
    /\ Len(up.md5sum) = 32
    /\ up.posts = 0
    /\ up.returned = "None"

\* C27: a completed call of executor or upload has raised nothing and has
\* returned None or a document id, the id only after one POST that succeeded
\* and whose answer held an id.
C27_SubmitterNeverThrows ==
    (up.pc = "done") =>
        /\ ~up.raised
        /\ up.returned \in {"None", "doc"}
        /\ up.returned = "doc" => (up.posts = 1 /\ up.post = "document_id")
        /\ up.post \in (PostOutcomes \ {"document_id"}) => up.returned = "None"

C27_Witness ==
    /\ up.pc = "done"
    /\ up.entry = "executor"
    /\ up.post = "TypeError"
    /\ up.returned = "None"
    /\ ~up.raised

(***************************************************************************)
(* Properties of the long path of final_score (SpecScore).                 *)
(***************************************************************************)
\* the calls with the repetitions made by _retry_model_request taken as one
RECURSIVE Collapse(_)
Collapse(calls) ==
    IF Len(calls) <= 1 THEN calls
    ELSE IF calls[1] = calls[2] THEN Collapse(Tail(calls))
    ELSE <<calls[1]>> \o Collapse(Tail(calls))

IsPrefix(a, b) == Len(a) <= Len(b) /\ a = SubSeq(b, 1, Len(a))

\* C31: on the long path the model calls are, repetitions of a retried call
\* apart, a summary call for each selected chunk in chunk order, one summary
\* call for the joined chunk summaries, one classification call for the
\* summary of that join, and the translation; the summaries are joined in
\* chunk order and no classification call is given a slice of the document.
C31_LongPathCallStructure ==
    (sc.pc # "off" /\ sc.text.len > chunk_size /\ has_enough_keywords(sc.text)) =>
        LET n == Min(CeilDiv(sc.text.len, chunk_size), max_chunks)
            expected == [i \in 1..n |-> Call("summary", Chunk(i - 1, sc.text.len), TRUE)]
                        \o <<Call("summary", Derived("full_summary"), TRUE),
                             Call("classify", Derived("decision_summary"), TRUE),
                             Call("translate", Derived("summary"), FALSE)>>
        IN /\ IsPrefix(Collapse(sc.calls), expected)
           /\ \A j \in 1..Len(sc.calls) :
                 sc.calls[j].fn = "classify" => sc.calls[j].arg.kind # "doc"
           /\ sc.pc \in {"long_full", "classify", "translate", "done"} =>
                 /\ Len(sc.summaries) = n
                 /\ sc.summary = join(sc.summaries)
           /\ sc.pc = "done" => Collapse(sc.calls) = expected

C31_Witness ==
    /\ sc.pc = "done"
    /\ sc.text.len = 6000
    /\ sc.summaries = <<<<"summary">>, <<"net">>>>
    /\ sc.summary = <<"summary", "\n", "net">>
    /\ Len(sc.calls) = 8
    /\ sc.calls[7].fn = "classify"
    /\ sc.calls[7].arg = Derived("decision_summary")


(***************************************************************************)
(* One announcement from acquisition to upload (SpecInfo): the calls of    *)
(* main.py:67, 74 and 87 for one raw id, with the organizer cell and the   *)
(* folder each of them works on.  Strings are sequences of characters      *)
(* here.                                                                   *)
(***************************************************************************)
MaxSegments == 3

\* downloader.py:157: \d{12}
id_length == 12

\* the characters that are not \w; every other character is a letter, a
\* digit or the underscore
NonWord == {" ", "-", "."}
IsWord(c) == c \notin NonWord

IdA == <<"1", "2", "3", "4", "5", "6", "7", "8", "9", "0", "1", "2">>
IdB == Rep("7", id_length)
Segments == {IdA, IdB, <<"1">>, <<"a">>, <<" ">>, <<"-">>, <<"_">>}

RECURSIVE Concat(_)
Concat(ss) == IF ss = <<>> THEN <<>> ELSE ss[1] \o Concat(Tail(ss))

\* "TOO Romashka 123456789012 g. Almaty"
Example ==
    <<"T", "O", "O", " ", "R", "o", "m", "a", "s", "h", "k", "a", " ">> \o IdA
    \o <<" ", "g", ".", " ", "A", "l", "m", "a", "t", "y">>

\* downloader.py:152-155: td.get_text(strip=True), or "" without the row
OrganizerTexts ==
    {t \in {Concat(ss) : ss \in UNION {[1..n -> Segments] : n \in 0..MaxSegments}} :
        Strip(t) = t}
    \cup {Example}

NoMatch == <<>>

AllDigits(text, i, n) == \A k \in 0..(n - 1) : text[i + k] \in Digits

\* \b before position i and \b after position i + id_length - 1, the
\* characters between them being digits
Bounded(text, i) ==
    /\ i = 1 \/ ~IsWord(text[i - 1])
    /\ i + id_length > Len(text) \/ ~IsWord(text[i + id_length])

\* a search for twelve digits anywhere
RECURSIVE scan_Unbounded(_, _)
scan_Unbounded(text, i) ==
    IF i + id_length - 1 > Len(text) THEN NoMatch
    ELSE IF AllDigits(text, i, id_length)
    THEN SubSeq(text, i, i + id_length - 1)
    ELSE scan_Unbounded(text, i + 1)

\* downloader.py:157: re.search(r"\b\d{12}\b", text), the leftmost match
RECURSIVE scan(_, _)
scan(text, i) ==
    IF i + id_length - 1 > Len(text) THEN NoMatch
    ELSE IF AllDigits(text, i, id_length) /\ Bounded(text, i)
    THEN SubSeq(text, i, i + id_length - 1)
    ELSE scan(text, i + 1)

re_search_Unbounded(text) == scan_Unbounded(text, 1)

re_search(text) == scan(text, 1)

\* str.replace(sub, ""): every occurrence, left to right, without overlap
RECURSIVE replace(_, _)
replace(text, sub) ==
    IF Len(text) < Len(sub) THEN text
    ELSE IF SubSeq(text, 1, Len(sub)) = sub
    THEN replace(SubSeq(text, Len(sub) + 1, Len(text)), sub)
    ELSE <<text[1]>> \o replace(Tail(text), sub)

\* downloader.py:304: announcement_id[:-2]
without_suffix(raw_id) == SubSeq(raw_id, 1, Len(raw_id) - 2)

RawIds == {<<"7", "7", "-", "1">>, <<"8", "8", "-", "2">>}

\* the value of the field "Номер объявления" of the page, "" without it
Numbers(raw_id) == {<<>>, raw_id}

NoFolder == <<>>

\* config.data_dir / name
data_dir(name) == <<"data_dir", "/">> \o name

NoneInfo == [ok |-> FALSE, announcement_id |-> <<>>, correspondent |-> <<>>,
             correspondent_id |-> NoMatch]

\* downloader.py:154-174: the organizer and the result
get_announcement_info(announcement_id, number, organizer) ==
    LET correspondent_id == re_search(organizer) IN
    [ok |-> TRUE,
     announcement_id |-> IF number # <<>> THEN number ELSE announcement_id,
     correspondent |-> IF correspondent_id # NoMatch
                       THEN Strip(replace(organizer, correspondent_id))
                       ELSE organizer,
     correspondent_id |-> correspondent_id]

InfoStart(raw_id, number, organizer) ==
    [pc |-> "start", raw_id |-> raw_id, number |-> number, organizer |-> organizer,
     save_folder |-> NoFolder, saved |-> FALSE, info |-> NoneInfo,
     read |-> NoFolder, sent |-> NoFolder, file |-> "none"]

InitInfo ==
    /\ ai \in {InfoStart(r, n, o) : r \in RawIds, n \in UNION {Numbers(q) : q \in RawIds},
                                    o \in OrganizerTexts}
    /\ ai.number \in Numbers(ai.raw_id)
    /\ sc = NoScore
    /\ ps = NoParse
    /\ ms = NoSites
    /\ dl = NoFiles
    /\ up = NoUpload
    /\ rm = NoSweep
    /\ MainAtRest

AcquireOutcomes == {"no_page", "not_found", "empty", "saved"}

\* downloader.py:302-342 and 213-215: the documents page and download_file,
\* which makes data_dir / raw_id once the listing has a link
AiAcquire ==
    /\ ai.pc = "start"
    /\ \E outcome \in AcquireOutcomes :
         ai' = [ai EXCEPT
                  !.pc = IF outcome = "no_page" THEN "done" ELSE "info",
                  !.save_folder = IF outcome \in {"empty", "saved"}
                                  THEN data_dir(ai.raw_id) ELSE NoFolder,
                  !.saved = (outcome = "saved")]
    /\ UNCHANGED <<sc, ps, ms, dl, up, rm, mainvars>>

\* downloader.py:345-351: get_announcement_info(announcement_id), None when
\* the page of the announcement cannot be fetched
AiInfo ==
    /\ ai.pc = "info"
    /\ \E fetched \in BOOLEAN :
         ai' = [ai EXCEPT
                  !.pc = IF fetched THEN "score" ELSE "done",
                  !.info = IF fetched
                           THEN get_announcement_info(without_suffix(ai.raw_id),
                                                      ai.number, ai.organizer)
                           ELSE NoneInfo]
    /\ UNCHANGED <<sc, ps, ms, dl, up, rm, mainvars>>

\* main.py:74, scorer.py:260, file_utils.py:209: final_score(announcement_id)
\* reads data_dir / announcement_id
AiScore ==
    /\ ai.pc = "score"
    /\ ai' = [ai EXCEPT !.pc = "upload", !.read = data_dir(ai.raw_id)]
    /\ UNCHANGED <<sc, ps, ms, dl, up, rm, mainvars>>

\* main.py:87, uploader.py:173-213, file_utils.py:260 and 303: executor(info)
\* reads data_dir / info["announcement_id"] once the organizer is complete
AiExecutor ==
    /\ ai.pc = "upload"
    /\ IF ai.info.correspondent = <<>> \/ ai.info.correspondent_id = NoMatch
       THEN ai' = [ai EXCEPT !.pc = "done"]
       ELSE LET folder_path == data_dir(ai.info.announcement_id) IN
            ai' = [ai EXCEPT
                     !.pc = "done",
                     !.sent = folder_path,
                     !.file = IF folder_path = ai.save_folder /\ ai.saved
                              THEN "found" ELSE "missing"]
    /\ UNCHANGED <<sc, ps, ms, dl, up, rm, mainvars>>

NextInfo == AiAcquire \/ AiInfo \/ AiScore \/ AiExecutor

SpecInfo == InitInfo /\ [][NextInfo]_vars

\* the positions of the runs of twelve digits between word boundaries
Runs(text) ==
    {i \in 1..(Len(text) - id_length + 1) : AllDigits(text, i, id_length) /\ Bounded(text, i)}

Positions(sub, text) ==
    {i \in 1..(Len(text) - Len(sub) + 1) : SubSeq(text, i, i + Len(sub) - 1) = sub}

Occurs(sub, text) == Positions(sub, text) # {}

\* C32: the organizer id is the first run of exactly twelve digits between
\* word boundaries of the organizer text, none without such a run; with an
\* id the name is the text without the occurrences of the id (the text
\* before the run followed by the text after it when the id occurs once),
\* trimmed at both ends, and for the example the id is 123456789012 and does not occur
\* in the name.
C32_OrganizerIdExtraction ==
    ai.pc \in {"score", "upload", "done"} /\ ai.info.ok =>
        LET text == ai.organizer
            id == ai.info.correspondent_id
            name == ai.info.correspondent IN
        /\ Runs(text) = {} => id = NoMatch /\ name = text
        /\ Runs(text) # {} =>
             LET first == CHOOSE i \in Runs(text) : \A j \in Runs(text) : i <= j
                 before == SubSeq(text, 1, first - 1)
                 after == SubSeq(text, first + id_length, Len(text)) IN
             /\ id = SubSeq(text, first, first + id_length - 1)
             /\ Len(id) = id_length /\ isdigit(id)
             /\ name = Strip(replace(text, id))
             /\ Positions(id, text) = {first} => name = Strip(before \o after)
             /\ Len(name) <= Len(text) - id_length
             /\ name = <<>> \/ (name[1] # " " /\ name[Len(name)] # " ")
        /\ text = Example =>
             /\ id = IdA
             /\ ~Occurs(id, name)
             /\ name = SubSeq(Example, 1, 13) \o SubSeq(Example, 26, Len(Example))

C32_Witness ==
    /\ ai.pc = "score"
    /\ ai.organizer = Example
    /\ ai.info.correspondent_id = IdA
    /\ Len(ai.info.correspondent) = Len(Example) - id_length

\* runs of twelve digits that an underscore joins into one word
C32_WitnessBoundary ==
    /\ ai.pc = "score"
    /\ ai.organizer = IdA \o <<"_">> \o IdB
    /\ ai.info.correspondent_id = NoMatch

\* C37: the folder download_file stores into, the folder final_score reads
\* and the folder executor takes the attachment from are data_dir / raw id,
\* so that executor finds the file that was downloaded.
C37_FolderAgreement ==
    (ai.pc = "done" /\ ai.saved /\ ai.info.ok
       /\ ai.info.correspondent # <<>> /\ ai.info.correspondent_id # NoMatch) =>
        /\ ai.save_folder = data_dir(ai.raw_id)
        /\ ai.read = data_dir(ai.raw_id)
        /\ ai.sent = data_dir(ai.raw_id)
        /\ ai.file = "found"


(***************************************************************************)
(* The data directory under the writes of the pipeline and the retention   *)
(* sweep of remover.py (SpecSweep).  Time is counted in days.              *)
(***************************************************************************)
MaxWrites == 3
MaxTime == 2

\* config.data_dir itself, where the checkpoint files are
root == <<>>

\* the suffix a downloaded file gets from the declared file name
\* (downloader.py:233-245)
Suffixes == {".pdf", ".log", ".LOG"}

\* remover.py:53: file_path.suffix.lower()
suffix_lower(suffix) ==
    CASE suffix = ".PDF" -> ".pdf"
      [] suffix = ".LOG" -> ".log"
      [] OTHER -> suffix

\* remover.py:40-41: the default list, and lists a caller gives
ExtensionLists == {{".tmp", ".log", ".bak"}, {".pdf"}, {".LOG"}}

DaysOld == {0, 1}

\* a file as old as the cutoff counted as older
is_old_Inclusive(mtime, cutoff_time) == mtime <= cutoff_time

\* remover.py:55: st_mtime < cutoff_time
is_old(mtime, cutoff_time) == mtime < cutoff_time

File(folder_name, name, mtime) == [folder |-> folder_name, name |-> name, mtime |-> mtime]

Checkpoint == file_name("filtered", 0, ".json")

NamesIn(files, folder_name) == {f.name : f \in {g \in files : g.folder = folder_name}}

\* open(path, "w") and open(path, "wb"): the file is created, or emptied and
\* written again
write(files, folder_name, name, now) ==
    {f \in files : ~(f.folder = folder_name /\ f.name = name)}
    \cup {File(folder_name, name, now)}

NoOp == [op |-> "none", cutoff_time |-> 0, extensions |-> {}]

SweepStart ==
    [pc |-> "on", files |-> {}, dirs |-> {}, now |-> 0, writes |-> 0, last |-> NoOp]

InitSweep ==
    /\ rm = SweepStart
    /\ sc = NoScore
    /\ ps = NoParse
    /\ ms = NoSites
    /\ dl = NoFiles
    /\ up = NoUpload
    /\ ai = NoInfo
    /\ MainAtRest

\* downloader.py:213-276: a file of one link saved into data_dir / raw_id
\* under the name the loop of lines 248-252 chooses
RmDownload ==
    /\ rm.pc = "on"
    /\ rm.writes < MaxWrites
    /\ \E raw_id \in Ids, ext \in Suffixes :
         LET file_path == unique_path(NamesIn(rm.files, raw_id), ext) IN
         rm' = [rm EXCEPT !.files = write(@, raw_id, file_path, rm.now),
                          !.dirs = @ \cup {raw_id},
                          !.writes = @ + 1,
                          !.last = [NoOp EXCEPT !.op = "download_file"]]
    /\ UNCHANGED <<sc, ps, ms, dl, up, ai, mainvars>>

\* file_utils.py:31-38: a checkpoint file written into data_dir
RmCheckpoint ==
    /\ rm.pc = "on"
    /\ rm.writes < MaxWrites
    /\ rm' = [rm EXCEPT !.files = write(@, root, Checkpoint, rm.now),
                        !.writes = @ + 1,
                        !.last = [NoOp EXCEPT !.op = "save_results_to_json"]]
    /\ UNCHANGED <<sc, ps, ms, dl, up, ai, mainvars>>

\* file_utils.py:209-330: final_score and executor read the folder
RmRead ==
    /\ rm.pc = "on"
    /\ rm.last.op # "read"
    /\ rm' = [rm EXCEPT !.last = [NoOp EXCEPT !.op = "read"]]
    /\ UNCHANGED <<sc, ps, ms, dl, up, ai, mainvars>>

\* a day passes
RmTick ==
    /\ rm.pc = "on"
    /\ rm.now < MaxTime
    /\ rm' = [rm EXCEPT !.now = @ + 1, !.last = NoOp]
    /\ UNCHANGED <<sc, ps, ms, dl, up, ai, mainvars>>

\* remover.py:27-68: remove_old_files(days_old, extensions); an unlink that
\* raises leaves its file
RmRemoveOldFiles ==
    /\ rm.pc = "on"
    /\ rm.files # {}
    /\ \E days_old \in DaysOld, extensions \in ExtensionLists :
         LET cutoff_time == rm.now - days_old
             old == {f \in rm.files : /\ suffix_lower(f.name.ext) \in extensions
                                      /\ is_old(f.mtime, cutoff_time)}
         IN \E failed \in SUBSET old :
              rm' = [rm EXCEPT !.files = @ \ (old \ failed),
                               !.last = [op |-> "remove_old_files",
                                         cutoff_time |-> cutoff_time,
                                         extensions |-> extensions]]
    /\ UNCHANGED <<sc, ps, ms, dl, up, ai, mainvars>>

\* remover.py:70-103: cleanup_empty_directories
RmCleanupEmptyDirectories ==
    /\ rm.pc = "on"
    /\ rm.dirs # {}
    /\ rm.last.op # "cleanup_empty_directories"
    /\ \E failed \in SUBSET {dir \in rm.dirs : NamesIn(rm.files, dir) = {}} :
         rm' = [rm EXCEPT !.dirs = {dir \in @ : NamesIn(rm.files, dir) # {}} \cup failed,
                          !.last = [NoOp EXCEPT !.op = "cleanup_empty_directories"]]
    /\ UNCHANGED <<sc, ps, ms, dl, up, ai, mainvars>>

NextSweep ==
    \/ RmDownload
    \/ RmCheckpoint
    \/ RmRead
    \/ RmTick
    \/ RmRemoveOldFiles
    \/ RmCleanupEmptyDirectories

SpecSweep == InitSweep /\ [][NextSweep]_vars

\* the files of the per-announcement folders a step takes away or writes anew
Lost == {f \in rm.files : f.folder # root /\ f \notin rm'.files}

\* the claim with the extension taken as it is written in the file name
C33_NoDeletionByPipeline_Literal ==
    [][/\ rm'.last.op # "remove_old_files" =>
            /\ Lost = {}
            /\ rm.dirs \subseteq rm'.dirs \/ rm'.last.op = "cleanup_empty_directories"
       /\ rm'.last.op = "remove_old_files" =>
            \A f \in rm.files \ rm'.files :
               /\ f.mtime < rm'.last.cutoff_time
               /\ f.name.ext \in rm'.last.extensions]_vars

\* C33: no step of the pipeline deletes or rewrites a file of a
\* per-announcement folder or removes such a folder; only the sweep deletes,
\* and remove_old_files deletes a file only if its modification time is
\* before the cutoff and its extension in lower case is in the given list.
C33_NoDeletionByPipeline ==
    [][/\ rm'.last.op # "remove_old_files" =>
            /\ Lost = {}
            /\ rm.dirs \subseteq rm'.dirs \/ rm'.last.op = "cleanup_empty_directories"
       /\ rm'.last.op = "remove_old_files" =>
            \A f \in rm.files \ rm'.files :
               /\ f.mtime < rm'.last.cutoff_time
               /\ suffix_lower(f.name.ext) \in rm'.last.extensions]_vars

\* the sweep has taken one of two files of a folder, and a download has
\* followed on what was left
C33_Witness ==
    /\ rm.pc = "on"
    /\ rm.last.op = "download_file"
    /\ rm.now = 1
    /\ rm.files = {File(<<"7">>, file_name(category_id, 1, ".pdf"), 0),
                   File(<<"7">>, file_name(category_id, 0, ".pdf"), 1)}


\* C35: download_file returns True exactly when a file was written to its
\* end during the call and False otherwise, never anything else; a link whose
\* href holds "signature" gets no HEAD and no GET request; and every link of
\* the listing gets its pass of the loop, a link that is not a signature
\* link its HEAD request, whatever happened to the links before it.
C35_DownloadResult ==
    (dl.pc = "idle" /\ dl.calls > 0) =>
        /\ dl.returned \in {"True", "False"}
        /\ dl.returned = "True" <=> \E i \in 1..Len(dl.seen) : dl.seen[i].saved
        /\ dl.returned = "True" =>
             \E f \in dl.files \ dl.start : \E i \in 1..Len(dl.log) :
                dl.log[i].file_path = f /\ dl.log[i].action = "saved"
        /\ \A i \in 1..Len(dl.seen) :
             /\ dl.seen[i].signature => dl.seen[i].head = "none" /\ ~dl.seen[i].get
             /\ ~dl.seen[i].signature => dl.seen[i].head # "none"
             /\ dl.seen[i].saved => dl.seen[i].get
             /\ dl.seen[i].get => dl.seen[i].head = "ok"
        /\ Len(dl.seen) \in {0, dl.listed}
        /\ Len(dl.seen) = 0 => dl.returned = "False"

\* the first link fails at its HEAD request and the link after it is saved
C35_Witness ==
    /\ dl.pc = "idle"
    /\ dl.returned = "True"
    /\ dl.listed = 2
    /\ dl.seen = <<Pass(FALSE, "failed", FALSE, FALSE), Pass(FALSE, "ok", TRUE, TRUE)>>

\* signature links alone
C35_WitnessSignature ==
    /\ dl.pc = "idle"
    /\ dl.returned = "False"
    /\ dl.seen = <<Pass(TRUE, "none", FALSE, FALSE), Pass(TRUE, "none", FALSE, FALSE)>>


\* C36: during one run no id is passed to process_announcement a second
\* time: the id the loop of main() passes on has had no stage-1 call in this
\* run.
C36_AtMostOncePerRun ==
    [][(pc = "loop" /\ pc' = "pa_dump") => cur' \notin obs.this.st1]_vars


\* C38: at every point of a run uploads_successful <= stats.stage2_success
\* <= stats.stage1_success <= total_processed, and the two stage counters are
\* the sizes of the maps stage1_success and stage2_success.
C38_RunStatistics ==
    /\ stats.uploads_successful <= stats.stage2_success
    /\ stats.stage2_success <= stats.stage1_success
    /\ stats.stage1_success <= stats.total_processed
    /\ stats.stage1_success = Cardinality(stage1_success)
    /\ stats.stage2_success = Cardinality(stage2_success)


\* C39: at every point of parse_site processed_pages + errors <= total_pages;
\* when it returns after a first fetch that succeeded, processed_pages +
\* errors = total_pages = the last page number of the strategy; when the
\* first fetch fails the result has no announcement, its three counters are
\* 0 and only the search URL was requested.
C39_DiscoveryAccounting ==
    (ps.pc \in {"first", "loop", "fetch", "extract", "done"} /\ ps.parser # "none") =>
        /\ ps.result.processed_pages + ps.result.errors <= ps.result.total_pages
        /\ (ps.pc = "done" /\ ps.last_page > 0) =>
             /\ ps.result.processed_pages + ps.result.errors = ps.result.total_pages
             /\ ps.result.total_pages = get_last_page_number(ps.parser, ps.soup)
             /\ ps.returned = "ParsingResult"
        /\ (ps.pc = "done" /\ ps.last_page = 0) =>
             /\ ps.result = ParsingResult
             /\ ps.returned = "ParsingResult"
             /\ Len(ps.fetches) = max_retries
             /\ \A i \in 1..Len(ps.fetches) : ps.fetches[i] = search_url

\* three pages: one parsed, one whose fetch failed, one whose parsing raised
C39_Witness ==
    /\ ps.pc = "done"
    /\ ps.result.total_pages = 3
    /\ ps.result.processed_pages = 1
    /\ ps.result.errors = 2
    /\ Len(ps.pageLog) = 3
    /\ ps.pageLog[1].outcome = "fetch_failed"
    /\ ps.pageLog[2].outcome = "ok"
    /\ ps.pageLog[3].outcome = "extract_raised"

\* the first fetch has failed
C39_WitnessFirstFetch ==
    /\ ps.pc = "done"
    /\ ps.parser = "goszakup"
    /\ ps.last_page = 0
    /\ ps.result = ParsingResult


\* every attempt of the retried classification call has raised or answered
\* nothing
ClsExhausted ==
    /\ sc.last.fn = "classify"
    /\ Len(sc.last.outs) = max_retry
    /\ \A i \in 1..max_retry : ~Truthy(sc.last.outs[i])

\* a summarization has failed: the single call of the short path, or every
\* attempt of a retried call of the long path
SummaryFailed ==
    /\ sc.text.len > 0 /\ has_enough_keywords(sc.text)
    /\ IF sc.text.len <= chunk_size THEN sc.summary = <<>>
       ELSE \/ \E i \in 1..Len(sc.summaries) : sc.summaries[i] = <<"net">>
            \/ sc.decision_summary = <<"net">>

C40_WitnessSummary ==
    /\ sc.pc = "done"
    /\ SummaryFailed
    /\ sc.text.len = 500
    /\ sc.result.decision = "da"


(***************************************************************************)
(* Termination (SpecTerm).  One of four flows is started: a run of main()  *)
(* over a checkpoint store that earlier runs may have filled, a call of    *)
(* parse_site or of get_with_retries, calls of download_file, or a call of *)
(* final_score.  The program is one thread of blocking calls and every     *)
(* service answers every request, so that a step that can be taken is      *)
(* taken: weak fairness of the steps of each flow.  The interrupt is not   *)
(* fair: nobody has to press the key.                                      *)
(***************************************************************************)
\* a short text and a text of two chunks, both with enough keywords
TermTexts == {[kw |-> 2, len |-> 500], [kw |-> 2, len |-> 3001]}

TermParses ==
    {ParseStart("goszakup", [pagination |-> TRUE, pages |-> <<2>>]), DownloadStart}

InitTerm ==
    /\ multi \in BOOLEAN
    /\ f_filtered \in {AbsentFile} \cup {Dumped(done) : done \in SUBSET Ids}
    /\ f_stage1s = AbsentFile
    /\ f_stage2s = AbsentFile
    /\ folder = {}
    /\ pc = "idle"
    /\ run = 0
    /\ todo = {}
    /\ cur = NoId
    /\ already_processed = {}
    /\ stage1_success = {}
    /\ stage2_success = {}
    /\ stats = ProcessingStats
    /\ result1 = "none"
    /\ info = "none"
    /\ result2 = NoResult2
    /\ given = NoGiven
    /\ trace = <<>>
    /\ obs = [this |-> RunObs, prev |-> PrevObs, ever |-> {}]
    /\ ms = NoSites
    /\ up = NoUpload
    /\ ai = NoInfo
    /\ rm = NoSweep
    /\ \/ sc = NoScore /\ ps = NoParse /\ dl = NoFiles
       \/ sc = NoScore /\ ps = NoParse /\ dl = FilesStart
       \/ sc \in {ScoreStart(t) : t \in TermTexts} /\ ps = NoParse /\ dl = NoFiles
       \/ sc = NoScore /\ ps \in TermParses /\ dl = NoFiles
    /\ <<sc, ps, dl>> # <<NoScore, NoParse, NoFiles>> =>
         ~multi /\ f_filtered = AbsentFile

\* main.py:131-162: the run of main() this specification follows
StartFirstRun ==
    /\ run = 0
    /\ <<sc, ps, dl>> = <<NoScore, NoParse, NoFiles>>
    /\ StartRun

\* the steps of main() between its start and its return
RunSteps ==
    \/ LoopNext
    \/ PaDump
    \/ PaStage1
    \/ PaAcquire
    \/ PaScore
    \/ LoopEnd
    \/ SaveOpen
    \/ SaveDump

NextTerm ==
    \/ StartFirstRun
    \/ RunSteps
    \/ Interrupt
    \/ NextParse
    \/ NextFiles
    \/ NextScore

SpecTerm ==
    /\ InitTerm
    /\ [][NextTerm]_vars
    /\ WF_vars(RunSteps)
    /\ WF_vars(NextParse)
    /\ WF_vars(NextFiles)
    /\ WF_vars(NextScore)

\* C34: a run of main() that has started returns, and the announcement
\* inside process_announcement leaves it; parse_site, get_with_retries,
\* download_file and final_score return; a retried HTTP request is sent at
\* most max_retries times, a retried model call is made at most max_retry
\* times, and the loop that looks for a free file name makes at most as
\* many passes as the folder has files.
C34_Termination ==
    /\ (pc # "idle") ~> (pc = "idle")
    /\ InProcess ~> (pc \in {"loop", "idle"})
    /\ (ps.pc \notin {"off", "done"}) ~> (ps.pc = "done")
    /\ (dl.pc = "links") ~> (dl.pc = "idle")
    /\ (sc.pc \notin {"off", "done"}) ~> (sc.pc = "done")
    /\ [](ps.pc # "off" => ps.attempt <= max_retries /\ Len(ps.statuses) <= max_retries)
    /\ [](sc.pc # "off" => sc.attempt < max_retry /\ Len(sc.outs) < max_retry)
    /\ [](dl.pc # "off" =>
            \A i \in 1..Len(dl.log) : dl.log[i].file_path.counter <= Cardinality(dl.files))

\* a run over two announcements has returned after its three checkpoint
\* files were written
C34_Witness ==
    /\ pc = "idle"
    /\ run = 1
    /\ obs.this.exit = "done"
    /\ stats.total_processed = 2
    /\ f_filtered = Dumped(already_processed)

====
